---- MODULE Spec2Model ----
(***************************************************************************)
(* A model of the search orchestration pipeline of picq-server:            *)
(*   app/api/query_engine/search.py   (search_stream and its helpers)      *)
(*   app/api/agents/retrieve_agent.py (perform_similarity_search)          *)
(*                                                                         *)
(* One behaviour is one run of the async generator search_stream.  The     *)
(* collaborators (inference service, vector store, relational store, blob  *)
(* fetch) are the environment: what they return, and whether they raise,   *)
(* is chosen with \E from small sets.                                      *)
(*                                                                         *)
(* Plain texts are TLA+ strings ("\o" is Python's "+").  The strings that  *)
(* the code joins with "\n" and later splits again (interesting_details)   *)
(* are sequences of one-character strings, so that join and split are      *)
(* computed and not assumed.                                               *)
(***************************************************************************)
EXTENDS Integers, Sequences, FiniteSets, TLC

(***************************************************************************)
(* Bounds and program constants                                            *)
(***************************************************************************)

\* Largest number of rows a vector-store response carries in the model.
MaxCand == 2

\* search.py:147  perform_similarity_search(formatted_query, match_count=4, ...)
MatchCount == 4

Min(a, b) == IF a <= b THEN a ELSE b

(***************************************************************************)
(* Python values                                                           *)
(***************************************************************************)

\* Python's None where a text is expected.  No text of the model equals it.
None == "<None>"

\* Python truthiness of an Optional[str]: None and "" are falsy.
Truthy(s) == s # None /\ s # ""

\* The request (search_stream's arguments).
SearchId == "search-1"
Query == "red bicycle near a lake"
ImageUrls == {None, "http://blob/img.jpg"}

(***************************************************************************)
(* Streams: what client.models.generate_content_stream returns.  A         *)
(* fragment carries a text or None (chunk.text is None).  A generator or   *)
(* async generator is single-pass; a list is re-iterable.                  *)
(***************************************************************************)

Frag(t) == [has |-> TRUE, text |-> t]
NoTextFrag == [has |-> FALSE, text |-> ""]

NewStream(frags, restartable) ==
    [frags |-> frags, pos |-> 0, restartable |-> restartable]

NoStream == NewStream(<<>>, FALSE)

\* The fragments one more iteration over the stream yields.
Remaining(s) ==
    IF s.restartable THEN s.frags ELSE SubSeq(s.frags, s.pos + 1, Len(s.frags))

RECURSIVE JoinTexts(_)
\* "".join(texts of the fragments that have a text), search.py:28-29, 63, 96
JoinTexts(frags) ==
    IF frags = <<>> THEN ""
    ELSE (IF Head(frags).has THEN Head(frags).text ELSE "") \o JoinTexts(Tail(frags))

\* collect_stream_content(stream), consumed to the end and joined.
CollectAll(s) == JoinTexts(Remaining(s))

\* What the loop `response += chunk` over collect_stream_content has put
\* together when the stream raises: the texts of the fragments read before the
\* raise, which can come at the first read, between two fragments or after the
\* last one.
PartialTexts(fragments) ==
    UNION { { JoinTexts(SubSeq(f, 1, k)) : k \in 0..Len(f) } : f \in fragments }

(***************************************************************************)
(* json.loads on the texts the structured stages return.  The stage        *)
(* adapters ask the inference service for an object (response_schema), but *)
(* what comes back is a text, and any text can come back.                  *)
(***************************************************************************)

JDecodeError == [kind |-> "JSONDecodeError"]
JDict(r) == [kind |-> "dict", value |-> r]
JList(l) == [kind |-> "list", value |-> l]
JStr(t) == [kind |-> "str", value |-> t]
JInt(n) == [kind |-> "int", value |-> n]

NotJsonText == "Sure, here is the result"
JsonNumberText == "7"
JsonStringText == "\"red bicycle lake\""
JsonListText == "[\"red bicycle lake\"]"

\* format-query stage outputs (format_query_agent.py:35-49 asks for both fields)
FQ_Head == "{\"formatted_query\": \"red bicycle lake\""
FQ_Tail == ", \"explanation\": \"kept the nouns\"}"
FQ_Full == FQ_Head \o FQ_Tail
FQ_NoExplanation == FQ_Head \o "}"
FQ_NoFormatted == "{\"explanation\": \"kept the nouns\"}"

\* reasoning stage outputs (reasoning_agent.py:39-51)
RS_Full == "{\"reasons\": [\"shows a red bicycle\", \"a lake behind it\"]}"
RS_NoReasons == "{\"summary\": \"a match\"}"

\* interesting-details stage outputs (intresting_details_agent.py:39-56)
NL == "\n"
DetailA == <<"a">>
DetailBC == <<"b", NL, "c">>
ID_Full == "{\"interesting_details\": [\"a\", \"b\\nc\"], \"explanation\": \"e\", \"heading\": \"h\"}"
ID_One == "{\"interesting_details\": [\"a\"]}"
ID_EmptyList == "{\"interesting_details\": []}"
ID_NoDetails == "{\"heading\": \"h\"}"

json_loads(t) ==
    CASE t = FQ_Full ->
            JDict([formatted_query |-> "red bicycle lake", explanation |-> "kept the nouns"])
      [] t = FQ_NoExplanation -> JDict([formatted_query |-> "red bicycle lake"])
      [] t = FQ_NoFormatted -> JDict([explanation |-> "kept the nouns"])
      [] t = RS_Full -> JDict([reasons |-> <<"shows a red bicycle", "a lake behind it">>])
      [] t = RS_NoReasons -> JDict([summary |-> "a match"])
      [] t = ID_Full ->
            JDict([interesting_details |-> <<DetailA, DetailBC>>,
                   explanation |-> "e", heading |-> "h"])
      [] t = ID_One -> JDict([interesting_details |-> <<DetailA>>])
      [] t = ID_EmptyList -> JDict([interesting_details |-> <<>>])
      [] t = ID_NoDetails -> JDict([heading |-> "h"])
      [] t = JsonListText -> JList(<<"red bicycle lake">>)
      [] t = JsonStringText -> JStr("red bicycle lake")
      [] t = JsonNumberText -> JInt(7)
      [] OTHER -> JDecodeError

HasKey(j, k) == k \in DOMAIN j.value

RECURSIVE JoinLines(_)
\* "\n".join(strs) on plain texts (search.py:253)
JoinLines(strs) ==
    IF strs = <<>> THEN ""
    ELSE IF Len(strs) = 1 THEN Head(strs)
    ELSE Head(strs) \o NL \o JoinLines(Tail(strs))

RECURSIVE JoinNL(_)
\* "\n".join(strs) on character sequences (search.py:241)
JoinNL(strs) ==
    IF strs = <<>> THEN <<>>
    ELSE IF Len(strs) = 1 THEN Head(strs)
    ELSE Head(strs) \o <<NL>> \o JoinNL(Tail(strs))

RECURSIVE SplitNL(_)
\* s.split("\n") on a character sequence (search.py:273); "".split("\n") is [""]
SplitNL(s) ==
    IF s = <<>> THEN << <<>> >>
    ELSE LET rest == SplitNL(Tail(s))
         IN  IF Head(s) = NL THEN << <<>> >> \o rest
             ELSE << <<Head(s)>> \o Head(rest) >> \o Tail(rest)

(***************************************************************************)
(* The response parsers of search_stream.  outcome is "ok" (the try block  *)
(* ran), "fallback" (the except clause ran) or "raise" (an exception the   *)
(* except clause does not name left the block).                            *)
(***************************************************************************)

FormatFallbackExplanation == "Error formatting query"
ReasonsFallback == <<"Unable to determine reasoning for this match">>

\* Mutant of ParseFormatQuery: the except clause forgets the original query.
ParseFormatQuery_DropsQuery(resp, query) ==
    LET j == json_loads(resp)
    IN  IF j.kind = "JSONDecodeError"
        THEN [outcome |-> "fallback", exc |-> "JSONDecodeError",
              formatted_query |-> "", explanation |-> FormatFallbackExplanation]
        ELSE IF j.kind # "dict"
        THEN [outcome |-> "raise", exc |-> "TypeError",
              formatted_query |-> None, explanation |-> None]
        ELSE IF ~HasKey(j, "formatted_query")
        THEN [outcome |-> "fallback", exc |-> "KeyError",
              formatted_query |-> "", explanation |-> FormatFallbackExplanation]
        ELSE [outcome |-> "ok", exc |-> "",
              formatted_query |-> j.value.formatted_query,
              explanation |-> IF HasKey(j, "explanation") THEN j.value.explanation ELSE ""]

\* search.py:123-140
ParseFormatQuery(resp, query) ==
    LET j == json_loads(resp)
    IN  IF j.kind = "JSONDecodeError"
        THEN [outcome |-> "fallback", exc |-> "JSONDecodeError",
              formatted_query |-> query, explanation |-> FormatFallbackExplanation]
        ELSE IF j.kind # "dict"
        THEN [outcome |-> "raise", exc |-> "TypeError",
              formatted_query |-> None, explanation |-> None]
        ELSE IF ~HasKey(j, "formatted_query")
        THEN [outcome |-> "fallback", exc |-> "KeyError",
              formatted_query |-> query, explanation |-> FormatFallbackExplanation]
        ELSE [outcome |-> "ok", exc |-> "",
              formatted_query |-> j.value.formatted_query,
              explanation |-> IF HasKey(j, "explanation") THEN j.value.explanation ELSE ""]

\* Mutant of ParseReasoning: the except clause leaves an empty list.
ParseReasoning_EmptyFallback(resp) ==
    LET j == json_loads(resp)
    IN  IF j.kind = "JSONDecodeError"
        THEN [outcome |-> "fallback", exc |-> "JSONDecodeError", reasons |-> <<>>]
        ELSE IF j.kind # "dict"
        THEN [outcome |-> "raise", exc |-> "TypeError", reasons |-> <<>>]
        ELSE IF ~HasKey(j, "reasons")
        THEN [outcome |-> "fallback", exc |-> "KeyError", reasons |-> <<>>]
        ELSE [outcome |-> "ok", exc |-> "", reasons |-> j.value.reasons]

\* search.py:216-221
ParseReasoning(resp) ==
    LET j == json_loads(resp)
    IN  IF j.kind = "JSONDecodeError"
        THEN [outcome |-> "fallback", exc |-> "JSONDecodeError", reasons |-> ReasonsFallback]
        ELSE IF j.kind # "dict"
        THEN [outcome |-> "raise", exc |-> "TypeError", reasons |-> <<>>]
        ELSE IF ~HasKey(j, "reasons")
        THEN [outcome |-> "fallback", exc |-> "KeyError", reasons |-> ReasonsFallback]
        ELSE [outcome |-> "ok", exc |-> "", reasons |-> j.value.reasons]

\* search.py:237-246.  The value is the joined text that goes into the row.
ParseInterestingDetails(resp) ==
    LET j == json_loads(resp)
    IN  IF j.kind = "JSONDecodeError"
        THEN [outcome |-> "fallback", exc |-> "JSONDecodeError", interesting_details |-> <<>>]
        ELSE IF j.kind # "dict"
        THEN [outcome |-> "raise", exc |-> "AttributeError", interesting_details |-> <<>>]
        ELSE [outcome |-> "ok", exc |-> "",
              interesting_details |->
                  JoinNL(IF HasKey(j, "interesting_details")
                         THEN j.value.interesting_details ELSE <<>>)]

(***************************************************************************)
(* The similarity retriever, retrieve_agent.py                             *)
(***************************************************************************)

Similarity(k) == IF k = 1 THEN 90 ELSE 80

\* A row of the match_photos RPC's response.
PhotoRow(k) ==
    [id |-> k, photo_url |-> "http://blob/photo-" \o ToString(k),
     photo_analysis |-> "analysis of photo " \o ToString(k),
     similarity |-> Similarity(k)]

RespLen == Min(MaxCand, MatchCount)

\* Responses of the vector store: the first n photos; two photos in ascending
\* similarity (the retriever trusts the store's order; nothing in the code
\* sorts); and a response that carries no data.
StoreResponses ==
    { [hasData |-> TRUE, data |-> [x \in 1..n |-> PhotoRow(x)]] : n \in 0..RespLen }
    \cup { [hasData |-> TRUE, data |-> <<PhotoRow(2), PhotoRow(1)>>] : n \in 2..RespLen }
    \cup { [hasData |-> FALSE, data |-> <<>>] }

\* No response yet, or one without a data attribute (retrieve_agent.py:55, 70-72).
NoResponse == [hasData |-> FALSE, data |-> <<>>]

\* Mutant of perform_similarity_search: the rank of an entry is the number of
\* entries more similar than it.
perform_similarity_search_RanksBySimilarity(resp) ==
    IF resp.hasData
    THEN [x \in 1..Len(resp.data) |->
             [id |-> resp.data[x].id,
              photo_url |-> resp.data[x].photo_url,
              photo_analysis |-> resp.data[x].photo_analysis,
              similarity |-> resp.data[x].similarity,
              rank |-> Cardinality({y \in 1..Len(resp.data) :
                                      resp.data[y].similarity > resp.data[x].similarity})]]
    ELSE <<>>

\* Mutant of perform_similarity_search: ranks are counted from one.
perform_similarity_search_RankFromOne(resp) ==
    IF resp.hasData
    THEN [x \in 1..Len(resp.data) |->
             [id |-> resp.data[x].id,
              photo_url |-> resp.data[x].photo_url,
              photo_analysis |-> resp.data[x].photo_analysis,
              similarity |-> resp.data[x].similarity,
              rank |-> x]]
    ELSE <<>>

\* retrieve_agent.py:54-72
perform_similarity_search(resp) ==
    IF resp.hasData
    THEN [x \in 1..Len(resp.data) |->
             [id |-> resp.data[x].id,
              photo_url |-> resp.data[x].photo_url,
              photo_analysis |-> resp.data[x].photo_analysis,
              similarity |-> resp.data[x].similarity,
              rank |-> x - 1]]
    ELSE <<>>

(***************************************************************************)
(* State of one run of search_stream                                       *)
(***************************************************************************)

VARIABLES
    pc,                           \* where the generator stands
    atYield,                      \* TRUE iff the last step ended at a yield
    image_url,                    \* the request's image URL, or None
    events,                       \* the events yielded so far, in order
    stream,                       \* the stage stream being consumed
    extracted_details,            \* search.py:63
    image_analysis,               \* search.py:69, 96
    photo_id_to_update,           \* search.py:70, 104
    formatted_query_response,     \* search.py:118-120
    formatted_query,              \* search.py:125, 135
    formatting_explanation,       \* search.py:126, 136
    similar_images,               \* search.py:146
    search_result_id,             \* search.py:160
    idx,                          \* the loop's i, search.py:197
    reasoning_response,           \* search.py:211-213
    reasons,                      \* search.py:218, 221
    interesting_details_response, \* search.py:232-234
    interesting_details,          \* search.py:239-246
    matches_with_reasoning,       \* search.py:195, 276
    search_results,               \* table search_results: rows this run inserted
    matches,                      \* table matches: rows this run inserted
    photo_updates,                \* table photos: updates this run made, in order
    faults,                       \* history: the collaborator calls that failed
    store_at_retrieval,           \* history: photo_updates when the RPC ran
    retrieval_query,              \* history: the query text given to retrieval
    calls,                        \* history: collaborator calls and their arguments
    response,                     \* retrieve_agent.py:42, the match_photos response
    match_query,                  \* image_query.py:55-58, the rows the select returned
    photo_analysis,               \* image_query.py:67; ingest_photo.py:155-160
    user_chat_id,                 \* image_query.py:93, 95
    chat_history,                 \* image_query.py:105
    content,                      \* image_query.py:17, collect_stream_content's text
    full_answer,                  \* image_query.py:132
    user_chats,                   \* table user_chats: rows this run inserted
    chat_messages,                \* table chat_messages: rows this run inserted
    runs,                         \* concurrent chat runs: each run's position and locals
    db_user_chats,                \* table user_chats as the concurrent runs share it
    db_chat_messages,             \* table chat_messages as the concurrent runs share it
    image_files,                  \* bulk_ingest.py:105, the files process_images is given
    processed_dir,                \* bulk_ingest.py:105, or None
    success_count,                \* bulk_ingest.py:107
    failed_count,                 \* bulk_ingest.py:108
    outcomes,                     \* history: what happened to each file handled, in order
    file,                         \* ingest_photo.py:123, the uploaded file
    metadata,                     \* ingest_photo.py:143
    embeddings,                   \* ingest_photo.py:166
    storage,                      \* the storage bucket: objects this call uploaded
    photos,                       \* table photos: rows this call inserted
    ingest_response               \* what ingest_photo returned or raised

request == <<image_url>>
extract_locals == <<extracted_details>>
image_locals == <<image_analysis, photo_id_to_update>>
format_locals == <<formatted_query_response, formatted_query, formatting_explanation>>
search_locals == <<similar_images, search_result_id, store_at_retrieval, retrieval_query>>
loop_locals == <<idx, reasoning_response, reasons, interesting_details_response,
                 interesting_details, matches_with_reasoning>>
tables == <<search_results, matches, photo_updates>>

\* The state concurrent runs of chat_message_stream share.
conc_vars == <<runs, db_user_chats, db_chat_messages>>

\* The state of a call of process_images (bulk_ingest.py).
batch_vars == <<image_files, processed_dir, success_count, failed_count, outcomes>>

\* The state of a call of ingest_photo (ingest_photo.py).
photo_vars == <<file, metadata, embeddings, storage, photos, ingest_response>>

ingest_vars == <<batch_vars, photo_vars>>

\* The state of a run of chat_message_stream (image_query.py).
chat_vars == <<match_query, photo_analysis, user_chat_id, chat_history, content,
               full_answer, user_chats, chat_messages, conc_vars>>

vars == <<pc, atYield, request, events, stream, extract_locals, image_locals,
          format_locals, search_locals, loop_locals, tables, faults, calls, response,
          chat_vars, ingest_vars>>

Ev(name, data) == [event |-> name, data |-> data]

\* yield {...}: the event goes out and the generator is suspended.
Yield(name, data) ==
    /\ events' = Append(events, Ev(name, data))
    /\ atYield' = TRUE

\* A step that ends at a collaborator call's return, not at a yield.
NoYield ==
    /\ events' = events
    /\ atYield' = FALSE

\* search.py:302-305: the handler of the whole body yields one error event,
\* after which the generator returns.
Raise(exc) ==
    /\ Yield("error", [message |-> "Error in search process", exc |-> exc])
    /\ pc' = "done"

\* The call is made with these arguments (it may then return or raise).
Called(call, args) == calls' = Append(calls, [call |-> call, args |-> args])

\* A collaborator call raises.
CallFails(call) ==
    /\ faults' = faults \cup {call}
    /\ Raise("Exception")

\* No run of chat_message_stream is under way.
ChatIdle ==
    /\ match_query = <<>>
    /\ photo_analysis = None
    /\ user_chat_id = None
    /\ chat_history = <<>>
    /\ content = ""
    /\ full_answer = ""
    /\ user_chats = <<>>
    /\ chat_messages = <<>>
    /\ runs = <<>>
    /\ db_user_chats = <<>>
    /\ db_chat_messages = <<>>

\* No call of process_images or ingest_photo is under way.
IngestIdle ==
    /\ image_files = <<>>
    /\ processed_dir = None
    /\ success_count = 0
    /\ failed_count = 0
    /\ outcomes = <<>>
    /\ file = None
    /\ metadata = None
    /\ embeddings = None
    /\ storage = <<>>
    /\ photos = <<>>
    /\ ingest_response = None

Init ==
    /\ pc = "start"
    /\ atYield = FALSE
    /\ image_url \in ImageUrls
    /\ events = <<>>
    /\ stream = NoStream
    /\ extracted_details = None
    /\ image_analysis = None
    /\ photo_id_to_update = None
    /\ formatted_query_response = ""
    /\ formatted_query = None
    /\ formatting_explanation = None
    /\ similar_images = <<>>
    /\ search_result_id = None
    /\ idx = 0
    /\ reasoning_response = ""
    /\ reasons = <<>>
    /\ interesting_details_response = ""
    /\ interesting_details = <<>>
    /\ matches_with_reasoning = <<>>
    /\ search_results = <<>>
    /\ matches = <<>>
    /\ photo_updates = <<>>
    /\ faults = {}
    /\ store_at_retrieval = <<>>
    /\ retrieval_query = None
    /\ calls = <<>>
    /\ response = NoResponse
    /\ ChatIdle
    /\ IngestIdle

(***************************************************************************)
(* Step 1: extract query details, search.py:55-66                          *)
(***************************************************************************)

\* Fragment sequences of the free-text stages.
TextFragments ==
    { <<>>, <<Frag("red "), NoTextFrag, Frag("bicycle")>> }

\* search.py:50-57, the first resumption: the settings are read and the two
\* clients are made before the try block, then extract_query_start is yielded.
\* When one of the three raises, the exception leaves the generator: no event is
\* yielded and the run is over.
ExtractStart ==
    /\ pc = "start"
    /\ \/ /\ Yield("extract_query_start", [message |-> "Extracting details from query"])
          /\ pc' = "extract_call"
          /\ UNCHANGED faults
       \/ /\ faults' = faults \cup {"setup"}
          /\ NoYield
          /\ pc' = "raised"
    /\ UNCHANGED <<request, chat_vars, ingest_vars, response, calls, stream, extract_locals,
                   image_locals, format_locals, search_locals, loop_locals, tables>>

\* search.py:59  await generate_query_extraction(query, client)
ExtractCall ==
    /\ pc = "extract_call"
    /\ \/ /\ \E f \in TextFragments, r \in BOOLEAN : stream' = NewStream(f, r)
          /\ pc' = "extract_stream"
          /\ NoYield
          /\ UNCHANGED faults
       \/ /\ CallFails("generate_query_extraction")
          /\ UNCHANGED stream
    /\ UNCHANGED <<request, chat_vars, ingest_vars, response, calls, extract_locals, image_locals, format_locals,
                   search_locals, loop_locals, tables>>

\* One turn of the loop at search.py:60-61 over collect_stream_content
\* (search.py:23-34): a fragment with a text is yielded as a chunk event, a
\* fragment without one is passed over.
StreamChunk(at, name) ==
    /\ pc = at
    /\ stream.pos < Len(stream.frags)
    /\ LET f == stream.frags[stream.pos + 1]
       IN  IF f.has THEN Yield(name, [chunk |-> f.text]) ELSE NoYield
    /\ stream' = [stream EXCEPT !.pos = @ + 1]
    /\ pc' = at
    /\ UNCHANGED <<request, chat_vars, ingest_vars, response, calls, extract_locals, image_locals, format_locals,
                   search_locals, loop_locals, tables, faults>>

\* The inference service fails while the stream is being read: when the next
\* fragment is asked for, the last one included.
StreamFails(at, call) ==
    /\ pc = at
    /\ CallFails(call)
    /\ UNCHANGED <<request, chat_vars, ingest_vars, response, calls, stream, extract_locals, image_locals, format_locals,
                   search_locals, loop_locals, tables>>

ExtractChunk == StreamChunk("extract_stream", "extract_query_chunk")

ExtractStreamFails == StreamFails("extract_stream", "generate_query_extraction")

\* Mutant of ExtractComplete: the image stage is skipped although the request
\* carries an image URL.
ExtractComplete_SkipsImage ==
    /\ pc = "extract_stream"
    /\ stream.pos = Len(stream.frags)
    /\ extracted_details' = CollectAll(stream)
    /\ Yield("extract_query_complete", [extracted_details |-> extracted_details'])
    /\ stream' = NoStream
    /\ pc' = "format_start"
    /\ UNCHANGED <<request, chat_vars, ingest_vars, response, calls, image_locals, format_locals, search_locals,
                   loop_locals, tables, faults>>

\* Mutant of ExtractComplete: the image step is entered whatever the request.
ExtractComplete_AlwaysImage ==
    /\ pc = "extract_stream"
    /\ stream.pos = Len(stream.frags)
    /\ extracted_details' = CollectAll(stream)
    /\ Yield("extract_query_complete", [extracted_details |-> extracted_details'])
    /\ stream' = NoStream
    /\ pc' = "image_start"
    /\ UNCHANGED <<request, chat_vars, ingest_vars, response, calls, image_locals, format_locals, search_locals,
                   loop_locals, tables, faults>>

\* search.py:63-66: the stream is iterated a second time to build the text.
ExtractComplete ==
    /\ pc = "extract_stream"
    /\ stream.pos = Len(stream.frags)
    /\ extracted_details' = CollectAll(stream)
    /\ Yield("extract_query_complete", [extracted_details |-> extracted_details'])
    /\ stream' = NoStream
    /\ pc' = IF Truthy(image_url) THEN "image_start" ELSE "format_start"
    /\ UNCHANGED <<request, chat_vars, ingest_vars, response, calls, image_locals, format_locals, search_locals,
                   loop_locals, tables, faults>>

(***************************************************************************)
(* Step 2: process the image if one is given, search.py:68-109             *)
(***************************************************************************)

ImageFragments ==
    { <<>>, <<Frag("a red bicycle "), Frag("on a pier")>> }

\* Responses of the select on table searches, search.py:102
LookupResponses ==
    { <<>>, <<[photo_id |-> None]>>, <<[photo_id |-> "photo-own"]>> }

\* search.py:72-74
ImageStart ==
    /\ pc = "image_start"
    /\ Yield("image_analysis_start", [message |-> "Processing image from URL"])
    /\ pc' = "download"
    /\ UNCHANGED <<request, chat_vars, ingest_vars, response, calls, stream, extract_locals, image_locals, format_locals,
                   search_locals, loop_locals, tables, faults>>

\* search.py:80-81: the session is opened and the request is sent; the run
\* waits for the answer.
DownloadRequest ==
    /\ pc = "download"
    /\ Called("download", [url |-> image_url])
    /\ pc' = "download_get"
    /\ NoYield
    /\ UNCHANGED <<request, chat_vars, ingest_vars, response, stream, extract_locals,
                   image_locals, format_locals, search_locals, loop_locals, tables, faults>>

\* Mutant of Download: after another status than 200 the image is analysed all
\* the same.
Download_AnalysesAnyway ==
    /\ pc = "download_get"
    /\ \/ /\ pc' = "download_read"
          /\ NoYield
          /\ UNCHANGED faults
       \/ /\ faults' = faults \cup {"download"}
          /\ Yield("error", [message |-> "Failed to download image", exc |-> "status"])
          /\ pc' = "image_call"
       \/ CallFails("download")
    /\ UNCHANGED <<request, chat_vars, ingest_vars, response, calls, stream, extract_locals,
                   image_locals, format_locals, search_locals, loop_locals, tables>>

\* search.py:81-82 and 106-109: the answer to session.get(image_url) arrives.
Download ==
    /\ pc = "download_get"
    /\ \/ /\ pc' = "download_read"                    \* status 200
          /\ NoYield
          /\ UNCHANGED faults
       \/ /\ faults' = faults \cup {"download"}       \* any other status
          /\ Yield("error", [message |-> "Failed to download image", exc |-> "status"])
          /\ pc' = "format_start"
       \/ CallFails("download")                       \* the request raises
    /\ UNCHANGED <<request, chat_vars, ingest_vars, response, calls, stream, extract_locals,
                   image_locals, format_locals, search_locals, loop_locals, tables>>

\* search.py:83-85: await response.read(), then the body is written to the
\* temporary file.
DownloadRead ==
    /\ pc = "download_read"
    /\ \/ /\ pc' = "image_call"
          /\ NoYield
          /\ UNCHANGED faults
       \/ CallFails("download")                       \* the read or the write raises
    /\ UNCHANGED <<request, chat_vars, ingest_vars, response, calls, stream, extract_locals,
                   image_locals, format_locals, search_locals, loop_locals, tables>>

\* search.py:90-92  await generate_analysis(path, date, location, client)
ImageCall ==
    /\ pc = "image_call"
    /\ \/ /\ \E f \in ImageFragments, r \in BOOLEAN : stream' = NewStream(f, r)
          /\ pc' = "image_stream"
          /\ NoYield
          /\ UNCHANGED faults
       \/ /\ CallFails("generate_analysis")
          /\ UNCHANGED stream
    /\ UNCHANGED <<request, chat_vars, ingest_vars, response, calls, extract_locals, image_locals, format_locals,
                   search_locals, loop_locals, tables>>

\* search.py:93-94
ImageChunk == StreamChunk("image_stream", "image_analysis_chunk")

ImageStreamFails == StreamFails("image_stream", "generate_analysis")

\* search.py:96-99: the stream is iterated a second time to build the text.
ImageComplete ==
    /\ pc = "image_stream"
    /\ stream.pos = Len(stream.frags)
    /\ image_analysis' = CollectAll(stream)
    /\ Yield("image_analysis_complete", [image_analysis |-> image_analysis'])
    /\ stream' = NoStream
    /\ pc' = "photo_lookup"
    /\ UNCHANGED <<request, chat_vars, ingest_vars, response, calls, extract_locals, photo_id_to_update, format_locals,
                   search_locals, loop_locals, tables, faults>>

\* Mutant of PhotoLookup: the photo row is updated as soon as its id is known,
\* before the search.
PhotoLookup_UpdatesAtOnce ==
    /\ pc = "photo_lookup"
    /\ Called("select_search", [search_id |-> SearchId])
    /\ \E data \in LookupResponses :
          /\ photo_id_to_update' =
                IF data # <<>> /\ Truthy(data[1].photo_id)
                THEN data[1].photo_id ELSE photo_id_to_update
          /\ photo_updates' =
                IF Truthy(photo_id_to_update') /\ Truthy(image_analysis)
                THEN Append(photo_updates,
                            [id |-> photo_id_to_update', photo_analysis |-> image_analysis])
                ELSE photo_updates
    /\ pc' = "format_start"
    /\ NoYield
    /\ UNCHANGED <<request, chat_vars, ingest_vars, response, stream, extract_locals, image_analysis, format_locals,
                   search_locals, loop_locals, search_results, matches, faults>>

\* search.py:101-105
PhotoLookup ==
    /\ pc = "photo_lookup"
    /\ Called("select_search", [search_id |-> SearchId])
    /\ \/ /\ \E data \in LookupResponses :
                photo_id_to_update' =
                    IF data # <<>> /\ Truthy(data[1].photo_id)
                    THEN data[1].photo_id ELSE photo_id_to_update
          /\ pc' = "format_start"
          /\ NoYield
          /\ UNCHANGED faults
       \/ /\ CallFails("select_search")
          /\ UNCHANGED photo_id_to_update
    /\ UNCHANGED <<request, chat_vars, ingest_vars, response, stream, extract_locals, image_analysis, format_locals,
                   search_locals, loop_locals, tables>>

(***************************************************************************)
(* Step 3: the formatted query, search.py:111-140                          *)
(***************************************************************************)

FormatFragments ==
    { <<Frag(FQ_Head), Frag(FQ_Tail)>>, <<Frag(FQ_NoExplanation)>>,
      <<Frag(FQ_NoFormatted)>>, <<Frag(NotJsonText)>>, <<NoTextFrag>>,
      <<Frag(JsonListText)>>, <<Frag(JsonStringText)>>, <<Frag(JsonNumberText)>> }

\* search.py:113
FormatStart ==
    /\ pc = "format_start"
    /\ Yield("format_query_start", [message |-> "Generating formatted search query"])
    /\ pc' = "format_call"
    /\ UNCHANGED <<request, chat_vars, ingest_vars, response, calls, stream, extract_locals, image_locals, format_locals,
                   search_locals, loop_locals, tables, faults>>

\* search.py:115-120: the call, and the one pass that accumulates the response
FormatCall ==
    /\ pc = "format_call"
    /\ Called("generate_format_query",
              [query |-> Query, extracted_details |-> extracted_details,
               image_analysis |-> image_analysis])
    /\ \/ /\ \E f \in FormatFragments :
                formatted_query_response' = CollectAll(NewStream(f, FALSE))
          /\ pc' = "format_parse"
          /\ NoYield
          /\ UNCHANGED faults
       \/ /\ CallFails("generate_format_query")
          /\ \/ UNCHANGED formatted_query_response                \* the call raises
             \/ \E t \in PartialTexts(FormatFragments) :    \* the stream raises
                   formatted_query_response' = t
    /\ UNCHANGED <<request, chat_vars, ingest_vars, response, stream, extract_locals, image_locals, formatted_query,
                   formatting_explanation, search_locals, loop_locals, tables>>

\* search.py:122-140
FormatParse ==
    /\ pc = "format_parse"
    /\ LET p == ParseFormatQuery(formatted_query_response, Query)
       IN  CASE p.outcome = "ok" ->
                  /\ formatted_query' = p.formatted_query
                  /\ formatting_explanation' = p.explanation
                  /\ Yield("format_query_complete",
                           [formatted_query |-> p.formatted_query,
                            explanation |-> p.explanation])
                  /\ pc' = "search_start"
             [] p.outcome = "fallback" ->
                  /\ formatted_query' = p.formatted_query
                  /\ formatting_explanation' = p.explanation
                  /\ Yield("format_query_error",
                           [message |-> "Error parsing formatted query",
                            formatted_query |-> p.formatted_query])
                  /\ pc' = "search_start"
             [] p.outcome = "raise" ->
                  /\ Raise(p.exc)
                  /\ UNCHANGED <<formatted_query, formatting_explanation>>
    /\ UNCHANGED <<request, chat_vars, ingest_vars, response, calls, stream, extract_locals, image_locals,
                   formatted_query_response, search_locals, loop_locals, tables, faults>>

(***************************************************************************)
(* Step 4: similarity search and the search_results row, search.py:142-189 *)
(***************************************************************************)

\* search.py:144
SearchStart ==
    /\ pc = "search_start"
    /\ Yield("search_start", [message |-> "Performing similarity search"])
    /\ pc' = "retrieve"
    /\ UNCHANGED <<request, chat_vars, ingest_vars, response, calls, stream, extract_locals, image_locals, format_locals,
                   search_locals, loop_locals, tables, faults>>

\* search.py:146-148: the embedding of formatted_query and the match_photos
\* RPC; any failure inside comes out as an HTTPException (retrieve_agent.py:74-76).
Retrieve ==
    /\ pc = "retrieve"
    /\ \/ /\ \E r \in StoreResponses :
                /\ response' = r
                /\ similar_images' = perform_similarity_search(r)
          /\ store_at_retrieval' = photo_updates
          /\ retrieval_query' = formatted_query
          /\ pc' = "create_search_result"
          /\ NoYield
          /\ UNCHANGED faults
       \/ /\ CallFails("perform_similarity_search")
          /\ UNCHANGED <<response, similar_images, store_at_retrieval, retrieval_query>>
    /\ UNCHANGED <<request, chat_vars, ingest_vars, calls, stream, extract_locals, image_locals,
                   format_locals, search_result_id, loop_locals, tables>>

\* The id the store gives the next search_results row.
NewSearchResultId == "search-result-" \o ToString(Len(search_results) + 1)

\* Mutant of CreateSearchResult: the branch of the missing row forgets to return.
CreateSearchResult_NoReturn ==
    /\ pc = "create_search_result"
    /\ \/ /\ search_results' =
                Append(search_results, [id |-> NewSearchResultId, search_id |-> SearchId])
          /\ search_result_id' = NewSearchResultId
          /\ IF similar_images = <<>>
             THEN /\ Yield("search_complete",
                           [message |-> "No matching images found", matches |-> <<>>])
                  /\ pc' = "empty_complete"
             ELSE /\ Yield("search_complete", [matches_count |-> Len(similar_images)])
                  /\ pc' = "reasoning_start"
          /\ UNCHANGED faults
       \/ /\ faults' = faults \cup {"insert_search_result"}
          /\ Yield("error", [message |-> "Failed to create search result record",
                             exc |-> "no data"])
          /\ pc' = "empty_complete"
          /\ UNCHANGED <<search_results, search_result_id>>
       \/ /\ CallFails("insert_search_result")
          /\ UNCHANGED <<search_results, search_result_id>>
    /\ UNCHANGED <<request, chat_vars, ingest_vars, response, calls, stream, extract_locals, image_locals, format_locals,
                   similar_images, store_at_retrieval, retrieval_query, loop_locals,
                   matches, photo_updates>>

\* search.py:150-189
CreateSearchResult ==
    /\ pc = "create_search_result"
    /\ \/ /\ search_results' =
                Append(search_results, [id |-> NewSearchResultId, search_id |-> SearchId])
          /\ search_result_id' = NewSearchResultId
          /\ IF similar_images = <<>>
             THEN /\ Yield("search_complete",
                           [message |-> "No matching images found", matches |-> <<>>])
                  /\ pc' = "empty_complete"
             ELSE /\ Yield("search_complete", [matches_count |-> Len(similar_images)])
                  /\ pc' = "reasoning_start"
          /\ UNCHANGED faults
       \/ /\ faults' = faults \cup {"insert_search_result"}   \* no row comes back
          /\ Yield("error", [message |-> "Failed to create search result record",
                             exc |-> "no data"])
          /\ pc' = "done"
          /\ UNCHANGED <<search_results, search_result_id>>
       \/ /\ CallFails("insert_search_result")                \* the insert raises
          /\ UNCHANGED <<search_results, search_result_id>>
    /\ UNCHANGED <<request, chat_vars, ingest_vars, response, calls, stream, extract_locals, image_locals, format_locals,
                   similar_images, store_at_retrieval, retrieval_query, loop_locals,
                   matches, photo_updates>>

\* search.py:285-293 and 171-179
FinalResults ==
    [search_id |-> SearchId,
     search_result_id |-> search_result_id,
     query |-> Query,
     extracted_details |-> extracted_details,
     formatted_query |-> formatted_query,
     formatting_explanation |-> formatting_explanation,
     matches |-> matches_with_reasoning]

\* search.py:170-179
EmptyComplete ==
    /\ pc = "empty_complete"
    /\ Yield("complete", [FinalResults EXCEPT !.matches = <<>>])
    /\ pc' = "post_complete"
    /\ UNCHANGED <<request, chat_vars, ingest_vars, response, calls, stream, extract_locals, image_locals, format_locals,
                   search_locals, loop_locals, tables, faults>>

(***************************************************************************)
(* Step 5: reasoning for each match, search.py:191-282                     *)
(***************************************************************************)

ReasoningFragments ==
    { <<Frag(RS_Full)>>, <<Frag(RS_NoReasons)>>, <<Frag(NotJsonText)>>,
      <<Frag(JsonListText)>> }

DetailsFragments ==
    { <<Frag(ID_Full)>>, <<Frag(ID_One)>>, <<Frag(ID_EmptyList)>>, <<Frag(ID_NoDetails)>>,
      <<Frag(NotJsonText)>>, <<Frag(JsonListText)>> }

\* search.py:193-195
ReasoningStart ==
    /\ pc = "reasoning_start"
    /\ Yield("reasoning_start", [message |-> "Generating reasoning for matches"])
    /\ matches_with_reasoning' = <<>>
    /\ idx' = 0
    /\ pc' = "loop"
    /\ UNCHANGED <<request, chat_vars, ingest_vars, response, calls, stream, extract_locals, image_locals, format_locals,
                   search_locals, reasoning_response, reasons,
                   interesting_details_response, interesting_details, tables, faults>>

\* search.py:197-200
LoopNext ==
    /\ pc = "loop"
    /\ idx < Len(similar_images)
    /\ Yield("reasoning_progress", [index |-> idx + 1, total |-> Len(similar_images)])
    /\ pc' = "reasoning_call"
    /\ UNCHANGED <<request, chat_vars, ingest_vars, response, calls, stream, extract_locals, image_locals, format_locals,
                   search_locals, loop_locals, tables, faults>>

\* Mutant of ReasoningCall: the reasoning stage is given the raw query as the
\* formatted query.
ReasoningCall_PassesRawQuery ==
    /\ pc = "reasoning_call"
    /\ Called("generate_reasoning",
              [query |-> Query, extracted_details |-> extracted_details,
               formatted_query |-> Query,
               similar_image_analysis |-> similar_images[idx + 1].photo_analysis,
               image_analysis |-> image_analysis])
    /\ \/ /\ \E f \in ReasoningFragments :
                reasoning_response' = CollectAll(NewStream(f, FALSE))
          /\ pc' = "reasoning_parse"
          /\ NoYield
          /\ UNCHANGED faults
       \/ /\ CallFails("generate_reasoning")
          /\ \/ UNCHANGED reasoning_response                \* the call raises
             \/ \E t \in PartialTexts(ReasoningFragments) :    \* the stream raises
                   reasoning_response' = t
    /\ UNCHANGED <<request, chat_vars, ingest_vars, response, stream, extract_locals, image_locals,
                   format_locals, search_locals, idx, reasons,
                   interesting_details_response, interesting_details,
                   matches_with_reasoning, tables>>

\* search.py:202-213
ReasoningCall ==
    /\ pc = "reasoning_call"
    /\ Called("generate_reasoning",
              [query |-> Query, extracted_details |-> extracted_details,
               formatted_query |-> formatted_query,
               similar_image_analysis |-> similar_images[idx + 1].photo_analysis,
               image_analysis |-> image_analysis])
    /\ \/ /\ \E f \in ReasoningFragments :
                reasoning_response' = CollectAll(NewStream(f, FALSE))
          /\ pc' = "reasoning_parse"
          /\ NoYield
          /\ UNCHANGED faults
       \/ /\ CallFails("generate_reasoning")
          /\ \/ UNCHANGED reasoning_response                \* the call raises
             \/ \E t \in PartialTexts(ReasoningFragments) :    \* the stream raises
                   reasoning_response' = t
    /\ UNCHANGED <<request, chat_vars, ingest_vars, response, stream, extract_locals, image_locals, format_locals,
                   search_locals, idx, reasons, interesting_details_response,
                   interesting_details, matches_with_reasoning, tables>>

\* search.py:215-226
ReasoningParse ==
    /\ pc = "reasoning_parse"
    /\ LET p == ParseReasoning(reasoning_response)
       IN  IF p.outcome = "raise"
           THEN /\ Raise(p.exc)
                /\ UNCHANGED reasons
           ELSE /\ reasons' = p.reasons
                /\ Yield("interesting_details_progress", [index |-> idx + 1])
                /\ pc' = "details_call"
    /\ UNCHANGED <<request, chat_vars, ingest_vars, response, calls, stream, extract_locals, image_locals, format_locals,
                   search_locals, idx, reasoning_response, interesting_details_response,
                   interesting_details, matches_with_reasoning, tables, faults>>

\* Mutant of DetailsCall: a failed call takes back the match rows written so far.
DetailsCall_RollsBack ==
    /\ pc = "details_call"
    /\ Called("generate_intresting_details",
              [image_analysis |-> similar_images[idx + 1].photo_analysis])
    /\ \/ /\ \E f \in DetailsFragments :
                interesting_details_response' = CollectAll(NewStream(f, FALSE))
          /\ pc' = "details_parse"
          /\ NoYield
          /\ UNCHANGED <<faults, matches>>
       \/ /\ CallFails("generate_intresting_details")
          /\ matches' = <<>>
          /\ \/ UNCHANGED interesting_details_response
             \/ \E t \in PartialTexts(DetailsFragments) :
                   interesting_details_response' = t
    /\ UNCHANGED <<request, chat_vars, ingest_vars, response, stream, extract_locals, image_locals, format_locals,
                   search_locals, idx, reasoning_response, reasons,
                   interesting_details, matches_with_reasoning, search_results,
                   photo_updates>>

\* search.py:228-234
DetailsCall ==
    /\ pc = "details_call"
    /\ Called("generate_intresting_details",
              [image_analysis |-> similar_images[idx + 1].photo_analysis])
    /\ \/ /\ \E f \in DetailsFragments :
                interesting_details_response' = CollectAll(NewStream(f, FALSE))
          /\ pc' = "details_parse"
          /\ NoYield
          /\ UNCHANGED faults
       \/ /\ CallFails("generate_intresting_details")
          /\ \/ UNCHANGED interesting_details_response                \* the call raises
             \/ \E t \in PartialTexts(DetailsFragments) :    \* the stream raises
                   interesting_details_response' = t
    /\ UNCHANGED <<request, chat_vars, ingest_vars, response, stream, extract_locals, image_locals, format_locals,
                   search_locals, idx, reasoning_response, reasons,
                   interesting_details, matches_with_reasoning, tables>>

\* search.py:236-246
DetailsParse ==
    /\ pc = "details_parse"
    /\ LET p == ParseInterestingDetails(interesting_details_response)
       IN  IF p.outcome = "raise"
           THEN /\ Raise(p.exc)
                /\ UNCHANGED interesting_details
           ELSE /\ interesting_details' = p.interesting_details
                /\ NoYield
                /\ pc' = "insert_match"
    /\ UNCHANGED <<request, chat_vars, ingest_vars, response, calls, stream, extract_locals, image_locals, format_locals,
                   search_locals, idx, reasoning_response, reasons,
                   interesting_details_response, matches_with_reasoning, tables, faults>>

\* The candidate of the current turn of the loop.
CurrentMatch == similar_images[idx + 1]

\* Mutant of MatchData: the row refers to the search, not to its search-result row.
MatchData_RefersToSearch(match) ==
    [search_result_id |-> SearchId,
     photo_id |-> match.id,
     is_best_match |-> (match.rank = 0),
     reason_for_match |-> JoinLines(reasons),
     interesting_details |-> interesting_details,
     rank |-> match.rank]

\* Mutant of MatchData: the best match is the first row the run writes.
MatchData_FirstWrittenIsBest(match) ==
    [search_result_id |-> search_result_id,
     photo_id |-> match.id,
     is_best_match |-> (matches = <<>>),
     reason_for_match |-> JoinLines(reasons),
     interesting_details |-> interesting_details,
     rank |-> match.rank]

\* search.py:249-256
MatchData(match) ==
    [search_result_id |-> search_result_id,
     photo_id |-> match.id,
     is_best_match |-> (match.rank = 0),
     reason_for_match |-> JoinLines(reasons),
     interesting_details |-> interesting_details,
     rank |-> match.rank]

\* The id the store gives the next matches row.
NewMatchId == "match-" \o ToString(Len(matches) + 1)

\* search.py:266-274
MatchWithReason(match, match_id) ==
    [id |-> match_id,
     photo_id |-> match.id,
     photo_url |-> match.photo_url,
     similarity |-> match.similarity,
     rank |-> match.rank,
     reasons |-> reasons,
     interesting_details |-> SplitNL(interesting_details)]

\* search.py:248-278
InsertMatch ==
    /\ pc = "insert_match"
    /\ \/ /\ matches' = Append(matches, [id |-> NewMatchId] @@ MatchData(CurrentMatch))
          /\ matches_with_reasoning' =
                Append(matches_with_reasoning, MatchWithReason(CurrentMatch, NewMatchId))
          /\ Yield("match_reasoning_complete", MatchWithReason(CurrentMatch, NewMatchId))
          /\ idx' = idx + 1
          /\ pc' = "loop"
          /\ UNCHANGED faults
       \/ /\ faults' = faults \cup {"insert_match"}          \* no row comes back
          /\ NoYield
          /\ idx' = idx + 1
          /\ pc' = "loop"
          /\ UNCHANGED <<matches, matches_with_reasoning>>
       \/ /\ CallFails("insert_match")                       \* the insert raises
          /\ UNCHANGED <<matches, matches_with_reasoning, idx>>
    /\ UNCHANGED <<request, chat_vars, ingest_vars, response, calls, stream, extract_locals, image_locals, format_locals,
                   search_locals, reasoning_response, reasons,
                   interesting_details_response, interesting_details,
                   search_results, photo_updates>>

\* Mutant of ReasoningComplete: the count is the number of candidates.
ReasoningComplete_CountsCandidates ==
    /\ pc = "loop"
    /\ idx = Len(similar_images)
    /\ Yield("reasoning_complete", [matches_count |-> Len(similar_images)])
    /\ pc' = "final"
    /\ UNCHANGED <<request, chat_vars, ingest_vars, response, calls, stream, extract_locals, image_locals, format_locals,
                   search_locals, loop_locals, tables, faults>>

\* search.py:280-282
ReasoningComplete ==
    /\ pc = "loop"
    /\ idx = Len(similar_images)
    /\ Yield("reasoning_complete", [matches_count |-> Len(matches_with_reasoning)])
    /\ pc' = "final"
    /\ UNCHANGED <<request, chat_vars, ingest_vars, response, calls, stream, extract_locals, image_locals, format_locals,
                   search_locals, loop_locals, tables, faults>>

\* search.py:284-295
Complete ==
    /\ pc = "final"
    /\ Yield("complete", FinalResults)
    /\ pc' = "post_complete"
    /\ UNCHANGED <<request, chat_vars, ingest_vars, response, calls, stream, extract_locals, image_locals, format_locals,
                   search_locals, loop_locals, tables, faults>>

(***************************************************************************)
(* The deferred photo update, search.py:181-185, 297-300 and 307-323       *)
(***************************************************************************)

\* search.py:307-323: the embedding and the update of the photos row; a failure
\* of either is logged and swallowed.
update_photo_analysis(photo_id, analysis) ==
    \/ /\ photo_updates' =
             Append(photo_updates, [id |-> photo_id, photo_analysis |-> analysis])
       /\ UNCHANGED faults
    \/ /\ faults' = faults \cup {"update_photo_analysis"}
       /\ UNCHANGED photo_updates

\* Mutant of PostComplete: a failed photo update is reported to the caller.
PostComplete_ReportsUpdateFailure ==
    /\ pc = "post_complete"
    /\ IF Truthy(photo_id_to_update) /\ Truthy(image_analysis)
       THEN \/ /\ photo_updates' =
                     Append(photo_updates,
                            [id |-> photo_id_to_update, photo_analysis |-> image_analysis])
               /\ NoYield
               /\ UNCHANGED faults
            \/ /\ faults' = faults \cup {"update_photo_analysis"}
               /\ Yield("error", [message |-> "Error in search process",
                                  exc |-> "Exception"])
               /\ UNCHANGED photo_updates
       ELSE /\ NoYield
            /\ UNCHANGED <<photo_updates, faults>>
    /\ pc' = "done"
    /\ UNCHANGED <<request, chat_vars, ingest_vars, response, calls, stream, extract_locals,
                   image_locals, format_locals, search_locals, loop_locals,
                   search_results, matches>>

\* search.py:182-185 and 299-300, reached when the consumer resumes the
\* generator after the complete event.
PostComplete ==
    /\ pc = "post_complete"
    /\ IF Truthy(photo_id_to_update) /\ Truthy(image_analysis)
       THEN update_photo_analysis(photo_id_to_update, image_analysis)
       ELSE UNCHANGED <<photo_updates, faults>>
    /\ NoYield
    /\ pc' = "done"
    /\ UNCHANGED <<request, chat_vars, ingest_vars, response, calls, stream, extract_locals, image_locals, format_locals,
                   search_locals, loop_locals, search_results, matches>>

Next ==
    \/ ExtractStart \/ ExtractCall \/ ExtractChunk \/ ExtractStreamFails
    \/ ExtractComplete
    \/ ImageStart \/ DownloadRequest \/ Download \/ DownloadRead \/ ImageCall \/ ImageChunk \/ ImageStreamFails
    \/ ImageComplete \/ PhotoLookup
    \/ FormatStart \/ FormatCall \/ FormatParse
    \/ SearchStart \/ Retrieve \/ CreateSearchResult \/ EmptyComplete
    \/ ReasoningStart \/ LoopNext \/ ReasoningCall \/ ReasoningParse
    \/ DetailsCall \/ DetailsParse \/ InsertMatch \/ ReasoningComplete
    \/ Complete \/ PostComplete

Spec == Init /\ [][Next]_vars

(***************************************************************************)
(* Cancellation.  When the caller stops consuming (routes/query.py:37-49,   *)
(* the client of the EventSourceResponse disconnects), the generator is     *)
(* closed where it stands, at a yield or at an await that waits for the     *)
(* network: GeneratorExit or CancelledError is raised there, and the        *)
(* handler at search.py:302 (except Exception) does not catch either, so no *)
(* statement of the body runs any more.                                     *)
(***************************************************************************)

\* Where the run has handed control back: at a yield, or waiting for the image
\* download (search.py:81, 83).  The other awaited calls run to their return
\* without waiting.
Suspended == atYield \/ pc \in {"download_get", "download_read"}

\* Mutant of Cancel: the handler of the body catches the cancellation as it
\* catches a failure, and reports it.
Cancel_HandledAsError ==
    /\ Suspended
    /\ pc \notin {"done", "cancelled"}
    /\ events' = Append(events, Ev("error", [message |-> "Error in search process",
                                             exc |-> "CancelledError"]))
    /\ pc' = "cancelled"
    /\ atYield' = FALSE
    /\ UNCHANGED <<request, chat_vars, ingest_vars, response, calls, stream, extract_locals,
                   image_locals, format_locals, search_locals, loop_locals, tables,
                   faults>>

Cancel ==
    /\ Suspended
    /\ pc \notin {"done", "cancelled"}
    /\ pc' = "cancelled"
    /\ atYield' = FALSE
    /\ UNCHANGED <<request, chat_vars, ingest_vars, response, calls, events, stream, extract_locals,
                   image_locals, format_locals, search_locals, loop_locals, tables,
                   faults>>

\* The consumer keeps resuming the generator, every collaborator call returns
\* or raises, and every fragment sequence ends: a step that can be taken is
\* taken.
SpecLive == Init /\ [][Next]_vars /\ WF_vars(Next)

NextCancel == Next \/ Cancel

SpecCancel == Init /\ [][NextCancel]_vars

(***************************************************************************)
(* perform_similarity_search on its own: the retriever applied to every    *)
(* response of at most MaxResp rows, ties and unsorted responses included. *)
(***************************************************************************)

\* Longest match_photos response given to the retriever on its own.
MaxResp == 3

SimilarityValues == {80, 90}

\* Rows of a match_photos response: any photo with any similarity.
RpcRows ==
    { [PhotoRow(k) EXCEPT !.similarity = v] : k \in 1..MaxResp, v \in SimilarityValues }

RECURSIVE SeqsUpTo(_, _)
\* The sequences over S of length at most n.
SeqsUpTo(S, n) ==
    IF n = 0 THEN {<<>>}
    ELSE LET shorter == SeqsUpTo(S, n - 1)
         IN  shorter \cup {Append(q, x) : q \in shorter, x \in S}

RpcResponses ==
    { [hasData |-> TRUE, data |-> d] : d \in SeqsUpTo(RpcRows, MaxResp) } \cup {NoResponse}

\* The RPC has returned (retrieve_agent.py:42-52).
InitRetriever ==
    /\ pc = "rpc_returned"
    /\ atYield = FALSE
    /\ image_url = None
    /\ events = <<>>
    /\ stream = NoStream
    /\ extracted_details = None
    /\ image_analysis = None
    /\ photo_id_to_update = None
    /\ formatted_query_response = ""
    /\ formatted_query = Query
    /\ formatting_explanation = None
    /\ similar_images = <<>>
    /\ search_result_id = None
    /\ idx = 0
    /\ reasoning_response = ""
    /\ reasons = <<>>
    /\ interesting_details_response = ""
    /\ interesting_details = <<>>
    /\ matches_with_reasoning = <<>>
    /\ search_results = <<>>
    /\ matches = <<>>
    /\ photo_updates = <<>>
    /\ faults = {}
    /\ store_at_retrieval = <<>>
    /\ retrieval_query = Query
    /\ calls = <<>>
    /\ response \in RpcResponses
    /\ ChatIdle
    /\ IngestIdle

\* retrieve_agent.py:54-72: the response is turned into the candidate list.
RetrieverReturns ==
    /\ pc = "rpc_returned"
    /\ similar_images' = perform_similarity_search(response)
    /\ pc' = "retriever_done"
    /\ UNCHANGED <<atYield, request, events, stream, extract_locals, image_locals,
                   format_locals, search_result_id, store_at_retrieval, retrieval_query,
                   loop_locals, tables, faults, calls, response, chat_vars, ingest_vars>>

NextRetriever == RetrieverReturns

(***************************************************************************)
(* chat_message_stream, image_query.py:33-165                              *)
(***************************************************************************)

\* The request (chat_message_stream's arguments).
MatchId == "match-1"
Question == "what colour is the bicycle?"

\* The variables of a run of search_stream, which a chat run leaves alone.
search_state == <<request, extract_locals, image_locals, format_locals, search_locals,
                  loop_locals, tables, response>>

\* The embedded photos(id, photo_analysis) of a match row; photos is null when
\* the match points at no photo.
NoPhotos == [present |-> FALSE, photo_analysis |-> None]
Photos(a) == [present |-> TRUE, photo_analysis |-> a]
MatchRow(ph) == [id |-> MatchId, photos |-> ph]

\* What the select at image_query.py:55-58 can return.
MatchSelects ==
    { <<>>,
      <<MatchRow(NoPhotos)>>,
      <<MatchRow(Photos(None))>>,
      <<MatchRow(Photos(""))>>,
      <<MatchRow(Photos("a red bicycle by a lake"))>> }

\* What the select at image_query.py:76-79 can return.
UserChatSelects == { <<>>, <<[id |-> "chat-0"]>> }

NewUserChatId == "chat-new"

\* The ids the database gives the two chat_messages rows a run inserts.
QuestionRowId == "msg-q"
AnswerRowId == "msg-a"

\* The messages an existing chat holds (image_query.py:99-103).
EarlierMessages ==
    << [id |-> "msg-1", is_user |-> TRUE, message_text |-> "where is it?"],
       [id |-> "msg-2", is_user |-> FALSE, message_text |-> "By a lake."] >>

ChatHistories(chat_id) ==
    IF chat_id = NewUserChatId THEN { <<>> } ELSE { <<>>, EarlierMessages }

\* Fragment sequences of the answer stream.
AnswerFragments ==
    { <<>>,
      <<Frag("It "), NoTextFrag, Frag("is red")>>,
      <<Frag(""), Frag("Red.")>> }

\* image_query.py:162-165: the handler of the whole body yields one error event,
\* after which the generator returns.
ChatRaise(exc) ==
    /\ Yield("error", [message |-> "Error generating answer", exc |-> exc])
    /\ pc' = "done"

ChatCallFails(call) ==
    /\ faults' = faults \cup {call}
    /\ ChatRaise("Exception")

\* image_query.py:60-64, 69-73, 87-91: an error event and return.
ChatGivesUp(message) ==
    /\ Yield("error", [message |-> message, exc |-> "none"])
    /\ pc' = "done"

InitChat ==
    /\ pc = "chat_start"
    /\ atYield = FALSE
    /\ image_url = None
    /\ events = <<>>
    /\ stream = NoStream
    /\ extracted_details = None
    /\ image_analysis = None
    /\ photo_id_to_update = None
    /\ formatted_query_response = ""
    /\ formatted_query = None
    /\ formatting_explanation = None
    /\ similar_images = <<>>
    /\ search_result_id = None
    /\ idx = 0
    /\ reasoning_response = ""
    /\ reasons = <<>>
    /\ interesting_details_response = ""
    /\ interesting_details = <<>>
    /\ matches_with_reasoning = <<>>
    /\ search_results = <<>>
    /\ matches = <<>>
    /\ photo_updates = <<>>
    /\ faults = {}
    /\ store_at_retrieval = <<>>
    /\ retrieval_query = None
    /\ calls = <<>>
    /\ response = NoResponse
    /\ ChatIdle
    /\ IngestIdle

\* image_query.py:47-53: the clients are made, then processing is yielded.
ChatStart ==
    /\ pc = "chat_start"
    /\ \/ /\ Yield("processing", [message |-> "Getting match details..."])
          /\ pc' = "chat_match"
          /\ UNCHANGED faults
       \/ ChatCallFails("get_supabase_client")
    /\ UNCHANGED <<search_state, ingest_vars, chat_vars, calls, stream>>

\* Mutant of ChatMatchLookup: a match without photo analysis is answered all
\* the same.
ChatMatchLookup_GoesOnWithoutAnalysis ==
    /\ pc = "chat_match"
    /\ Called("select_matches", [match_id |-> MatchId])
    /\ \/ \E rows \in MatchSelects :
             /\ match_query' = rows
             /\ UNCHANGED faults
             /\ IF rows = <<>>
                THEN /\ ChatGivesUp("Match not found")
                     /\ UNCHANGED photo_analysis
                ELSE /\ photo_analysis' = IF rows[1].photos.present
                                          THEN rows[1].photos.photo_analysis
                                          ELSE ""
                     /\ NoYield
                     /\ pc' = "chat_user_chat"
       \/ /\ ChatCallFails("select_matches")
          /\ UNCHANGED <<match_query, photo_analysis>>
    /\ UNCHANGED <<search_state, ingest_vars, conc_vars, stream, user_chat_id, chat_history, content, full_answer,
                   user_chats, chat_messages>>

\* image_query.py:55-73: the match and its photo analysis are read.
ChatMatchLookup ==
    /\ pc = "chat_match"
    /\ Called("select_matches", [match_id |-> MatchId])
    /\ \/ \E rows \in MatchSelects :
             /\ match_query' = rows
             /\ UNCHANGED faults
             /\ IF rows = <<>>
                THEN /\ ChatGivesUp("Match not found")
                     /\ UNCHANGED photo_analysis
                ELSE /\ photo_analysis' = IF rows[1].photos.present
                                          THEN rows[1].photos.photo_analysis
                                          ELSE ""
                     /\ IF ~Truthy(photo_analysis')
                        THEN ChatGivesUp("No photo analysis available for this match")
                        ELSE /\ NoYield
                             /\ pc' = "chat_user_chat"
       \/ /\ ChatCallFails("select_matches")
          /\ UNCHANGED <<match_query, photo_analysis>>
    /\ UNCHANGED <<search_state, ingest_vars, conc_vars, stream, user_chat_id, chat_history, content, full_answer,
                   user_chats, chat_messages>>

\* image_query.py:76-81, 94-95: the chat of the match is looked up.
ChatUserChatSelect ==
    /\ pc = "chat_user_chat"
    /\ Called("select_user_chats", [match_id |-> MatchId])
    /\ \/ \E rows \in UserChatSelects :
             /\ IF rows = <<>>
                THEN /\ pc' = "chat_create"
                     /\ UNCHANGED user_chat_id
                ELSE /\ user_chat_id' = rows[1].id
                     /\ pc' = "chat_history"
             /\ NoYield
             /\ UNCHANGED faults
       \/ /\ ChatCallFails("select_user_chats")
          /\ UNCHANGED user_chat_id
    /\ UNCHANGED <<search_state, ingest_vars, conc_vars, stream, match_query, photo_analysis, chat_history, content,
                   full_answer, user_chats, chat_messages>>

\* image_query.py:83-93: a chat is created for the match.
ChatUserChatInsert ==
    /\ pc = "chat_create"
    /\ Called("insert_user_chats", [match_id |-> MatchId])
    /\ \/ /\ user_chats' = Append(user_chats, [id |-> NewUserChatId, match_id |-> MatchId])
          /\ user_chat_id' = NewUserChatId
          /\ pc' = "chat_history"
          /\ NoYield
          /\ UNCHANGED faults
       \/ /\ ChatGivesUp("Failed to create chat")        \* the insert returns no row
          /\ UNCHANGED <<user_chats, user_chat_id, faults>>
       \/ /\ ChatCallFails("insert_user_chats")
          /\ UNCHANGED <<user_chats, user_chat_id>>
    /\ UNCHANGED <<search_state, ingest_vars, conc_vars, stream, match_query, photo_analysis, chat_history, content,
                   full_answer, chat_messages>>

\* image_query.py:99-105: the chat's earlier messages, oldest first.
ChatHistorySelect ==
    /\ pc = "chat_history"
    /\ Called("select_chat_messages", [user_chat_id |-> user_chat_id])
    /\ \/ /\ chat_history' \in ChatHistories(user_chat_id)
          /\ pc' = "chat_question"
          /\ NoYield
          /\ UNCHANGED faults
       \/ /\ ChatCallFails("select_chat_messages")
          /\ UNCHANGED chat_history
    /\ UNCHANGED <<search_state, ingest_vars, conc_vars, stream, match_query, photo_analysis, user_chat_id, content,
                   full_answer, user_chats, chat_messages>>

\* image_query.py:109-122: the question is stored (a row that did not come back
\* is only logged), then generating is yielded.
ChatQuestionInsert ==
    /\ pc = "chat_question"
    /\ Called("insert_question", [user_chat_id |-> user_chat_id, message_text |-> Question])
    /\ \/ /\ \/ chat_messages' =
                  Append(chat_messages, [id |-> QuestionRowId,
                                         user_chat_id |-> user_chat_id, is_user |-> TRUE,
                                         message_text |-> Question])
             \/ UNCHANGED chat_messages
          /\ Yield("generating", [message |-> "Generating answer..."])
          /\ pc' = "chat_answer_call"
          /\ UNCHANGED faults
       \/ /\ ChatCallFails("insert_question")
          /\ UNCHANGED chat_messages
    /\ UNCHANGED <<search_state, ingest_vars, conc_vars, stream, match_query, photo_analysis, user_chat_id,
                   chat_history, content, full_answer, user_chats>>

\* Mutant of ChatAnswerCall: the history given to the answer stage is read
\* again, after the question was stored.
ChatAnswerCall_RereadsHistory ==
    /\ pc = "chat_answer_call"
    /\ Called("generate_answer",
              [question |-> Question,
               chat_history |->
                   chat_history \o [k \in 1..Len(chat_messages) |->
                                       [id |-> chat_messages[k].id,
                                        is_user |-> chat_messages[k].is_user,
                                        message_text |-> chat_messages[k].message_text]],
               photo_analysis |-> photo_analysis])
    /\ \/ /\ \E f \in AnswerFragments, r \in BOOLEAN : stream' = NewStream(f, r)
          /\ full_answer' = ""
          /\ Yield("answer_start", [message |-> "Starting answer stream"])
          /\ pc' = "chat_answer_stream"
          /\ UNCHANGED faults
       \/ /\ ChatCallFails("generate_answer")
          /\ UNCHANGED <<stream, full_answer>>
    /\ UNCHANGED <<search_state, ingest_vars, conc_vars, match_query, photo_analysis, user_chat_id, chat_history,
                   content, user_chats, chat_messages>>

\* image_query.py:124-133: await generate_answer(...), full_answer = "", then
\* answer_start is yielded.
ChatAnswerCall ==
    /\ pc = "chat_answer_call"
    /\ Called("generate_answer", [question |-> Question, chat_history |-> chat_history,
                                  photo_analysis |-> photo_analysis])
    /\ \/ /\ \E f \in AnswerFragments, r \in BOOLEAN : stream' = NewStream(f, r)
          /\ full_answer' = ""
          /\ Yield("answer_start", [message |-> "Starting answer stream"])
          /\ pc' = "chat_answer_stream"
          /\ UNCHANGED faults
       \/ /\ ChatCallFails("generate_answer")
          /\ UNCHANGED <<stream, full_answer>>
    /\ UNCHANGED <<search_state, ingest_vars, conc_vars, match_query, photo_analysis, user_chat_id, chat_history,
                   content, user_chats, chat_messages>>

\* Mutant of ChatAnswerChunk: the helper yields the chunk without adding it to
\* its content.
ChatAnswerChunk_ForgetsContent ==
    /\ pc = "chat_answer_stream"
    /\ stream.pos < Len(stream.frags)
    /\ LET f == stream.frags[stream.pos + 1]
       IN  IF f.has
           THEN /\ UNCHANGED content
                /\ full_answer' = full_answer \o f.text
                /\ Yield("answer_chunk", [chunk |-> f.text])
           ELSE /\ NoYield
                /\ UNCHANGED <<content, full_answer>>
    /\ stream' = [stream EXCEPT !.pos = @ + 1]
    /\ pc' = "chat_answer_stream"
    /\ UNCHANGED <<search_state, ingest_vars, conc_vars, calls, faults, match_query, photo_analysis, user_chat_id,
                   chat_history, user_chats, chat_messages>>

\* One fragment of the answer stream.  collect_stream_content
\* (image_query.py:15-28) adds a fragment's text to content and hands it on as
\* {"chunk": text}, passing over a fragment without a text; the loop at
\* image_query.py:135-139 adds the chunk to full_answer and yields answer_chunk.
\* (A synchronous generator makes the async for raise TypeError before any
\* fragment is read; the for loop at image_query.py:25-28 reads it the same way.)
ChatAnswerChunk ==
    /\ pc = "chat_answer_stream"
    /\ stream.pos < Len(stream.frags)
    /\ LET f == stream.frags[stream.pos + 1]
       IN  IF f.has
           THEN /\ content' = content \o f.text
                /\ full_answer' = full_answer \o f.text
                /\ Yield("answer_chunk", [chunk |-> f.text])
           ELSE /\ NoYield
                /\ UNCHANGED <<content, full_answer>>
    /\ stream' = [stream EXCEPT !.pos = @ + 1]
    /\ pc' = "chat_answer_stream"
    /\ UNCHANGED <<search_state, ingest_vars, conc_vars, calls, faults, match_query, photo_analysis, user_chat_id,
                   chat_history, user_chats, chat_messages>>

\* The inference service fails while the answer stream is being read: when the
\* next fragment is asked for, the last one included.
ChatAnswerStreamFails ==
    /\ pc = "chat_answer_stream"
    /\ ChatCallFails("generate_answer")
    /\ UNCHANGED <<search_state, ingest_vars, chat_vars, calls, stream>>

\* image_query.py:31, 140-141: the stream is exhausted, the helper hands on
\* {"complete": content} and the loop takes it as the full answer.
ChatAnswerStreamEnd ==
    /\ pc = "chat_answer_stream"
    /\ stream.pos = Len(stream.frags)
    /\ full_answer' = content
    /\ NoYield
    /\ pc' = "chat_answer_insert"
    /\ UNCHANGED <<search_state, ingest_vars, conc_vars, calls, faults, stream, match_query, photo_analysis,
                   user_chat_id, chat_history, content, user_chats, chat_messages>>

\* image_query.py:145-160: the answer is stored (a row that did not come back
\* is only logged), then complete is yielded with the answer.
ChatAnswerInsert ==
    /\ pc = "chat_answer_insert"
    /\ Called("insert_answer", [user_chat_id |-> user_chat_id, message_text |-> full_answer])
    /\ \/ /\ \/ chat_messages' =
                  Append(chat_messages, [id |-> AnswerRowId,
                                         user_chat_id |-> user_chat_id, is_user |-> FALSE,
                                         message_text |-> full_answer])
             \/ UNCHANGED chat_messages
          /\ Yield("complete", [message |-> "Answer generation complete",
                                answer |-> full_answer])
          /\ pc' = "done"
          /\ UNCHANGED faults
       \/ /\ ChatCallFails("insert_answer")
          /\ UNCHANGED chat_messages
    /\ UNCHANGED <<search_state, ingest_vars, conc_vars, stream, match_query, photo_analysis, user_chat_id,
                   chat_history, content, full_answer, user_chats>>

NextChat ==
    \/ ChatStart
    \/ ChatMatchLookup
    \/ ChatUserChatSelect
    \/ ChatUserChatInsert
    \/ ChatHistorySelect
    \/ ChatQuestionInsert
    \/ ChatAnswerCall
    \/ ChatAnswerChunk
    \/ ChatAnswerStreamFails
    \/ ChatAnswerStreamEnd
    \/ ChatAnswerInsert

SpecChat == InitChat /\ [][NextChat]_vars

(***************************************************************************)
(* Concurrent runs of chat_message_stream for one match id.  The store     *)
(* client is synchronous (core/database.py:8-15, create_client), so a run  *)
(* hands control to another run only at a yield or an await; what lies     *)
(* between two such points is one step.                                    *)
(***************************************************************************)

NumRuns == 2
RunIds == 1..NumRuns

\* user_chats ids: the chat that was there before the runs has id 0, the chat
\* run r creates gets id r; NoChat is a run's user_chat_id before it has one.
OldChatId == 0
NoChat == -1

\* The answer stream of a concurrent run has this many fragments with a text.
AnswerLengths == {0, 1}

IdleRun == [pc |-> "start", user_chat_id |-> NoChat, chat_history |-> <<>>,
            full_answer |-> "", left |-> 0]

\* The messages of the chat that was there before the runs; by is 0 for them
\* and the run's id for a row a run inserts.
OldMessages ==
    << [by |-> 0, user_chat_id |-> OldChatId, is_user |-> TRUE,
        message_text |-> "where is it?"],
       [by |-> 0, user_chat_id |-> OldChatId, is_user |-> FALSE,
        message_text |-> "By a lake."] >>

InitConc ==
    /\ pc = "concurrent"
    /\ atYield = FALSE
    /\ image_url = None
    /\ events = <<>>
    /\ stream = NoStream
    /\ extracted_details = None
    /\ image_analysis = None
    /\ photo_id_to_update = None
    /\ formatted_query_response = ""
    /\ formatted_query = None
    /\ formatting_explanation = None
    /\ similar_images = <<>>
    /\ search_result_id = None
    /\ idx = 0
    /\ reasoning_response = ""
    /\ reasons = <<>>
    /\ interesting_details_response = ""
    /\ interesting_details = <<>>
    /\ matches_with_reasoning = <<>>
    /\ search_results = <<>>
    /\ matches = <<>>
    /\ photo_updates = <<>>
    /\ faults = {}
    /\ store_at_retrieval = <<>>
    /\ retrieval_query = None
    /\ calls = <<>>
    /\ response = NoResponse
    /\ match_query = <<>>
    /\ photo_analysis = None
    /\ user_chat_id = None
    /\ chat_history = <<>>
    /\ content = ""
    /\ full_answer = ""
    /\ user_chats = <<>>
    /\ chat_messages = <<>>
    /\ IngestIdle
    /\ runs = [r \in RunIds |-> IdleRun]
    /\ \/ /\ db_user_chats = <<>>
          /\ db_chat_messages = <<>>
       \/ /\ db_user_chats = <<[id |-> OldChatId, match_id |-> MatchId]>>
          /\ db_chat_messages \in { <<>>, OldMessages }

\* What the single-run model keeps, which the concurrent runs leave alone.
single_run_vars == <<pc, atYield, events, stream, faults, calls, search_state, ingest_vars,
                     match_query,
                     photo_analysis, user_chat_id, chat_history, content, full_answer,
                     user_chats, chat_messages>>

RECURSIVE RowsOfChat(_, _)
\* .eq('user_chat_id', id) on chat_messages, in insertion order
\* (image_query.py:99-103).
RowsOfChat(rows, id) ==
    IF rows = <<>> THEN <<>>
    ELSE (IF Head(rows).user_chat_id = id THEN <<Head(rows)>> ELSE <<>>)
         \o RowsOfChat(Tail(rows), id)

\* The run is over: its generator returned after an error or complete event.
RunEnds(r) == runs' = [runs EXCEPT ![r].pc = "done"]

\* image_query.py:45-53, up to the yield of processing; when the settings or
\* one of the clients cannot be made the run yields error and is over.
ConcStart(r) ==
    /\ runs[r].pc = "start"
    /\ \/ runs' = [runs EXCEPT ![r].pc = "at_processing"]
       \/ RunEnds(r)
    /\ UNCHANGED <<single_run_vars, db_user_chats, db_chat_messages>>

\* Mutant of ConcPrepare: a user chat is created without looking for the one
\* the match already has.
ConcPrepare_AlwaysCreates(r) ==
    /\ runs[r].pc = "at_processing"
    /\ LET chats == Append(db_user_chats, [id |-> r, match_id |-> MatchId])
           history == RowsOfChat(db_chat_messages, r)
           question == [by |-> r, user_chat_id |-> r, is_user |-> TRUE,
                        message_text |-> Question]
       IN  /\ db_user_chats' = chats
           /\ runs' = [runs EXCEPT ![r].pc = "at_generating",
                                   ![r].user_chat_id = r,
                                   ![r].chat_history = history]
           /\ db_chat_messages' = Append(db_chat_messages, question)
    /\ UNCHANGED single_run_vars

\* image_query.py:55-122, from the resumption after processing to the yield of
\* generating: the match is read, the user chat is looked up and created when
\* the select found none, the history is read and the question is stored.  No
\* call in this stretch is awaited.
ConcPrepare(r) ==
    /\ runs[r].pc = "at_processing"
    /\ LET found == db_user_chats # <<>>
           chats == IF found THEN db_user_chats
                    ELSE Append(db_user_chats, [id |-> r, match_id |-> MatchId])
           cid == IF found THEN db_user_chats[1].id ELSE r
           history == RowsOfChat(db_chat_messages, cid)
           question == [by |-> r, user_chat_id |-> cid, is_user |-> TRUE,
                        message_text |-> Question]
       IN  \/ /\ RunEnds(r)                  \* no usable match, or a select raises
              /\ UNCHANGED <<db_user_chats, db_chat_messages>>
           \/ /\ ~found                      \* the user_chats insert returns no row
              /\ RunEnds(r)
              /\ UNCHANGED <<db_user_chats, db_chat_messages>>
           \/ /\ db_user_chats' = chats      \* a later call of the stretch raises
              /\ RunEnds(r)
              /\ UNCHANGED db_chat_messages
           \/ /\ db_user_chats' = chats
              /\ runs' = [runs EXCEPT ![r].pc = "at_generating",
                                      ![r].user_chat_id = cid,
                                      ![r].chat_history = history]
              /\ \/ db_chat_messages' = Append(db_chat_messages, question)
                 \/ UNCHANGED db_chat_messages   \* no row came back: only logged
    /\ UNCHANGED single_run_vars

\* image_query.py:124-133: await generate_answer(...), then the yield of
\* answer_start.
ConcAnswerCall(r) ==
    /\ runs[r].pc = "at_generating"
    /\ \/ \E n \in AnswerLengths :
             runs' = [runs EXCEPT ![r].pc = "streaming",
                                  ![r].full_answer = "",
                                  ![r].left = n]
       \/ RunEnds(r)
    /\ UNCHANGED <<single_run_vars, db_user_chats, db_chat_messages>>

\* image_query.py:135-139: one chunk is read and yielded as answer_chunk, or
\* the stream raises.
ConcChunk(r) ==
    /\ runs[r].pc = "streaming"
    /\ runs[r].left > 0
    /\ \/ runs' = [runs EXCEPT ![r].left = @ - 1,
                               ![r].full_answer = @ \o "Red."]
       \/ RunEnds(r)
    /\ UNCHANGED <<single_run_vars, db_user_chats, db_chat_messages>>

\* image_query.py:140-160: the stream is exhausted, the answer is stored and
\* complete is yielded.
ConcFinish(r) ==
    /\ runs[r].pc = "streaming"
    /\ runs[r].left = 0
    /\ RunEnds(r)
    /\ \/ db_chat_messages' =
              Append(db_chat_messages,
                     [by |-> r, user_chat_id |-> runs[r].user_chat_id, is_user |-> FALSE,
                      message_text |-> runs[r].full_answer])
       \/ UNCHANGED db_chat_messages          \* no row came back, or the insert raises
    /\ UNCHANGED <<single_run_vars, db_user_chats>>

\* The id of the chat the route GET /db/chats/match/{match_id} creates.
RouteChatId == NumRuns + 1

\* routes/db.py:227-306, get_chats_by_match_id: the route reads the chat of the
\* match and its messages, and creates the chat when the match has none.  None
\* of its store calls is awaited, so it is one step between the steps of the
\* runs.  It writes nothing when the chat is there, and when it fails (no
\* client, no such match, the insert raises or returns no row).
get_chats_by_match_id ==
    /\ \/ /\ db_user_chats = <<>>
          /\ db_user_chats' = <<[id |-> RouteChatId, match_id |-> MatchId]>>
       \/ UNCHANGED db_user_chats
    /\ UNCHANGED <<single_run_vars, runs, db_chat_messages>>

NextConc ==
    \/ \E r \in RunIds :
          \/ ConcStart(r)
          \/ ConcPrepare(r)
          \/ ConcAnswerCall(r)
          \/ ConcChunk(r)
          \/ ConcFinish(r)
    \/ get_chats_by_match_id

SpecConc == InitConc /\ [][NextConc]_vars

(***************************************************************************)
(* process_images, bulk_ingest.py:105-155                                  *)
(***************************************************************************)

MaxFiles == 3

\* The paths scan_directory found (bulk_ingest.py:54-67).
FileNames == <<"in/a.jpg", "in/b.png", "in/c.heic", "in/d.webp", "in/e.gif">>

ProcessedDirs == {None, "in/processed"}

\* What the analyze endpoint answers with status 200: the JSON body.  A body
\* such as {} is falsy in Python.
AnalysisJson == "{\"success\": true, \"photo_id\": \"p1\"}"
EmptyJson == "{}"

\* What can happen to the request of one file: an answer with a status and a
\* body, or an exception (the file cannot be read, the connection fails).
Replies ==
    { [raised |-> FALSE, status |-> 200, body |-> AnalysisJson],
      [raised |-> FALSE, status |-> 200, body |-> EmptyJson],
      [raised |-> FALSE, status |-> 500, body |-> "Internal Server Error"],
      [raised |-> TRUE, status |-> 0, body |-> ""] }

\* bulk_ingest.py:77-103: the body of a 200 answer, None otherwise.
_analyze_image(reply) ==
    IF reply.raised THEN None
    ELSE IF reply.status = 200 THEN reply.body
    ELSE None

\* Python truthiness of what _analyze_image returns (bulk_ingest.py:125).
ResultTruthy(result) == result # None /\ result # EmptyJson

\* What a call of process_images leaves alone.
not_batch == <<atYield, events, stream, faults, calls, search_state, chat_vars, photo_vars,
               image_files, processed_dir>>

InitBatch ==
    /\ pc = "batch_start"
    /\ atYield = FALSE
    /\ image_url = None
    /\ events = <<>>
    /\ stream = NoStream
    /\ extracted_details = None
    /\ image_analysis = None
    /\ photo_id_to_update = None
    /\ formatted_query_response = ""
    /\ formatted_query = None
    /\ formatting_explanation = None
    /\ similar_images = <<>>
    /\ search_result_id = None
    /\ idx = 0
    /\ reasoning_response = ""
    /\ reasons = <<>>
    /\ interesting_details_response = ""
    /\ interesting_details = <<>>
    /\ matches_with_reasoning = <<>>
    /\ search_results = <<>>
    /\ matches = <<>>
    /\ photo_updates = <<>>
    /\ faults = {}
    /\ store_at_retrieval = <<>>
    /\ retrieval_query = None
    /\ calls = <<>>
    /\ response = NoResponse
    /\ ChatIdle
    /\ \E n \in 0..Min(MaxFiles, Len(FileNames)) : image_files = SubSeq(FileNames, 1, n)
    /\ processed_dir \in ProcessedDirs
    /\ success_count = 0
    /\ failed_count = 0
    /\ outcomes = <<>>
    /\ file = None
    /\ metadata = None
    /\ embeddings = None
    /\ storage = <<>>
    /\ photos = <<>>
    /\ ingest_response = None

\* What happened to one file.
Outcome(file_path, reply, moved, move_failed) ==
    [file |-> file_path, status |-> reply.status, result |-> _analyze_image(reply),
     moved |-> moved, move_failed |-> move_failed]

\* bulk_ingest.py:107-119: the counts are set to 0, the processed directory is
\* made when one is given and is not there, the progress bar and the session
\* are made.  None of this is inside a try: when os.makedirs raises,
\* process_images raises before the first file and returns nothing.
ProcessImagesStart ==
    /\ pc = "batch_start"
    /\ \/ pc' = "batch_loop"
       \/ /\ processed_dir # None
          /\ pc' = "batch_raised"
    /\ UNCHANGED <<not_batch, success_count, failed_count, outcomes>>

\* Mutant of ProcessFile: a move that fails is counted as a failed file.
ProcessFile_MoveFailureCountsAsFailed ==
    /\ pc = "batch_loop"
    /\ Len(outcomes) < Len(image_files)
    /\ LET file_path == image_files[Len(outcomes) + 1]
       IN  \E reply \in Replies :
             IF ResultTruthy(_analyze_image(reply))
             THEN /\ success_count' = success_count + 1
                  /\ IF processed_dir # None
                     THEN \/ /\ outcomes' = Append(outcomes,
                                                  Outcome(file_path, reply, TRUE, FALSE))
                             /\ UNCHANGED failed_count
                          \/ /\ outcomes' = Append(outcomes,
                                                  Outcome(file_path, reply, FALSE, TRUE))
                             /\ failed_count' = failed_count + 1
                     ELSE /\ outcomes' = Append(outcomes,
                                               Outcome(file_path, reply, FALSE, FALSE))
                          /\ UNCHANGED failed_count
             ELSE /\ failed_count' = failed_count + 1
                  /\ outcomes' = Append(outcomes, Outcome(file_path, reply, FALSE, FALSE))
                  /\ UNCHANGED success_count
    /\ pc' = "batch_loop"
    /\ UNCHANGED not_batch

\* One turn of the loop at bulk_ingest.py:120-152: the file is sent; a truthy
\* result adds one to success_count and the file is moved when a processed
\* directory is given (a move that raises is only logged, 133-137); any other
\* result adds one to failed_count.
ProcessFile ==
    /\ pc = "batch_loop"
    /\ Len(outcomes) < Len(image_files)
    /\ LET file_path == image_files[Len(outcomes) + 1]
       IN  \E reply \in Replies :
             IF ResultTruthy(_analyze_image(reply))
             THEN /\ success_count' = success_count + 1
                  /\ UNCHANGED failed_count
                  /\ IF processed_dir # None
                     THEN \/ outcomes' = Append(outcomes,
                                               Outcome(file_path, reply, TRUE, FALSE))
                          \/ outcomes' = Append(outcomes,
                                               Outcome(file_path, reply, FALSE, TRUE))
                     ELSE outcomes' = Append(outcomes,
                                            Outcome(file_path, reply, FALSE, FALSE))
             ELSE /\ failed_count' = failed_count + 1
                  /\ outcomes' = Append(outcomes, Outcome(file_path, reply, FALSE, FALSE))
                  /\ UNCHANGED success_count
    /\ pc' = "batch_loop"
    /\ UNCHANGED not_batch

\* bulk_ingest.py:154-155: the loop is over, the two counts are returned.
ProcessImagesReturn ==
    /\ pc = "batch_loop"
    /\ Len(outcomes) = Len(image_files)
    /\ pc' = "batch_done"
    /\ UNCHANGED <<not_batch, success_count, failed_count, outcomes>>

NextBatch == ProcessImagesStart \/ ProcessFile \/ ProcessImagesReturn

SpecBatch == InitBatch /\ [][NextBatch]_vars

(***************************************************************************)
(* ingest_photo, ingest_photo.py:123-180                                   *)
(***************************************************************************)

\* get_photo_url.py: the content types upload_image_to_storage accepts.
ALLOWED_IMAGE_TYPES ==
    {"image/jpeg", "image/png", "image/gif", "image/webp", "image/tiff", "image/bmp",
     "image/heic"}

UploadFiles ==
    { [filename |-> "a.jpg", content_type |-> "image/jpeg"],
      [filename |-> "b.png", content_type |-> "image/png"],
      [filename |-> "notes.txt", content_type |-> "text/plain"] }

ExifDatetime == "2024:05:01 10:00:00"

\* The metadata upload_image_to_storage can extract from an image.
Metadatas ==
    { [datetime |-> None, formatted_address |-> None],
      [datetime |-> ExifDatetime, formatted_address |-> "Lake Road 1"],
      [datetime |-> ExifDatetime, formatted_address |-> None],
      [datetime |-> "yesterday", formatted_address |-> None] }

\* ingest_photo.py:79-88: "YYYY:MM:DD HH:MM:SS" to ISO format; a text that does
\* not parse, or no text, gives None.
taken_at(datetime) ==
    IF datetime = ExifDatetime THEN "2024-05-01T10:00:00" ELSE None

\* The object name and public URL the upload gives the file.
ObjectOf(f) == [name |-> "uuid-" \o f.filename, url |-> "http://blob/uuid-" \o f.filename]

Embedding == "vector-1536"

\* What a call of ingest_photo leaves alone.
not_ingest == <<atYield, events, stream, search_state, batch_vars, conc_vars, match_query,
                user_chat_id, chat_history, content, full_answer, user_chats,
                chat_messages, file>>

InitIngest ==
    /\ pc = "ingest_upload"
    /\ atYield = FALSE
    /\ image_url = None
    /\ events = <<>>
    /\ stream = NoStream
    /\ extracted_details = None
    /\ image_analysis = None
    /\ photo_id_to_update = None
    /\ formatted_query_response = ""
    /\ formatted_query = None
    /\ formatting_explanation = None
    /\ similar_images = <<>>
    /\ search_result_id = None
    /\ idx = 0
    /\ reasoning_response = ""
    /\ reasons = <<>>
    /\ interesting_details_response = ""
    /\ interesting_details = <<>>
    /\ matches_with_reasoning = <<>>
    /\ search_results = <<>>
    /\ matches = <<>>
    /\ photo_updates = <<>>
    /\ faults = {}
    /\ store_at_retrieval = <<>>
    /\ retrieval_query = None
    /\ calls = <<>>
    /\ response = NoResponse
    /\ ChatIdle
    /\ image_files = <<>>
    /\ processed_dir = None
    /\ success_count = 0
    /\ failed_count = 0
    /\ outcomes = <<>>
    /\ file \in UploadFiles
    /\ metadata = None
    /\ embeddings = None
    /\ storage = <<>>
    /\ photos = <<>>
    /\ ingest_response = None

\* ingest_photo.py:178-180 (and 55-57, 119-121): whatever is raised inside
\* ingest_photo leaves it as HTTPException(status_code=500).
IngestFails(call) ==
    /\ faults' = faults \cup {call}
    /\ ingest_response' = "500"
    /\ pc' = "ingest_done"

\* The object is in the bucket.
InStorage(object) == \E i \in 1..Len(storage) : storage[i] = object

\* The metadata of an image for which no geocoding answer came: it has no GPS
\* position, the key is not configured, or the request failed
\* (get_photo_url.py:48-50, 78-79).
NoAddress == { m \in Metadatas : m.formatted_address = None }

\* ingest_photo.py:141, get_photo_url.py:186-197: upload_image_to_storage is
\* called; a content type that is not allowed raises 400 at once, otherwise the
\* call waits for `await file.read()`.
IngestUploadRequest ==
    /\ pc = "ingest_upload"
    /\ Called("upload_image_to_storage", [filename |-> file.filename])
    /\ IF file.content_type \notin ALLOWED_IMAGE_TYPES
       THEN IngestFails("upload_image_to_storage")
       ELSE /\ pc' = "ingest_upload_read"
            /\ UNCHANGED <<faults, ingest_response>>
    /\ UNCHANGED <<not_ingest, photo_analysis, metadata, embeddings, storage, photos>>

\* get_photo_url.py:207-226 and ingest_photo.py:142-143: the file name is
\* made, the object is put in the bucket and its public URL is read; none of
\* these calls is awaited.  The metadata is one of ms.
UploadStores(ms) ==
    \/ \E m \in ms :
          /\ storage' = Append(storage, ObjectOf(file))
          /\ metadata' = m
          /\ pc' = "ingest_download"
          /\ UNCHANGED <<faults, ingest_response>>
    \/ /\ IngestFails("upload_image_to_storage")      \* no client, or upload raises
       /\ UNCHANGED <<storage, metadata>>
    \/ /\ storage' = Append(storage, ObjectOf(file))  \* get_public_url raises
       /\ IngestFails("upload_image_to_storage")
       /\ UNCHANGED metadata

\* get_photo_url.py:197-205: the content has been read (or the read raises);
\* the image is opened and its metadata extracted.  An image with a GPS position
\* waits for the geocoding request (118-162, 60-61); any other goes on to the
\* upload.
IngestUploadRead ==
    /\ pc = "ingest_upload_read"
    /\ \/ /\ IngestFails("upload_image_to_storage")   \* read raises, or no valid image
          /\ UNCHANGED <<storage, metadata>>
       \/ /\ pc' = "ingest_geocode_get"
          /\ UNCHANGED <<faults, ingest_response, storage, metadata>>
       \/ UploadStores(NoAddress)
    /\ UNCHANGED <<not_ingest, calls, photo_analysis, embeddings, photos>>

\* get_photo_url.py:60-61: session.get of the geocoding request has answered
\* and the call waits for `await response.json()`; when the request raises, the
\* exception is logged (78-79) and the upload goes on without an address.
IngestGeocodeGet ==
    /\ pc = "ingest_geocode_get"
    /\ \/ /\ pc' = "ingest_geocode_json"
          /\ UNCHANGED <<faults, ingest_response, storage, metadata>>
       \/ UploadStores(NoAddress)
    /\ UNCHANGED <<not_ingest, calls, photo_analysis, embeddings, photos>>

\* get_photo_url.py:62-79, 162-163: the geocoding answer is read; with results
\* it gives the address, without results or when reading it raises it gives
\* none.  The upload then goes on.
IngestGeocodeJson ==
    /\ pc = "ingest_geocode_json"
    /\ UploadStores(Metadatas)
    /\ UNCHANGED <<not_ingest, calls, photo_analysis, embeddings, photos>>

\* ingest_photo.py:147, utils.py:27-28: download_image is called and waits for
\* session.get(url).
IngestDownloadRequest ==
    /\ pc = "ingest_download"
    /\ Called("download_image", [url |-> ObjectOf(file).url])
    /\ pc' = "ingest_download_get"
    /\ UNCHANGED <<not_ingest, faults, ingest_response, photo_analysis, metadata,
                   embeddings, storage, photos>>

\* utils.py:28-38: the answer has come; with status 200 the call waits for
\* `await response.read()`, any other status raises, and so does a request that
\* failed.
IngestDownload ==
    /\ pc = "ingest_download_get"
    /\ \/ /\ pc' = "ingest_download_read"
          /\ UNCHANGED <<faults, ingest_response>>
       \/ IngestFails("download_image")
    /\ UNCHANGED <<not_ingest, calls, photo_analysis, metadata, embeddings, storage,
                   photos>>

\* utils.py:30-36: the body has been read and written to the temporary file,
\* or the read raises.
IngestDownloadRead ==
    /\ pc = "ingest_download_read"
    /\ \/ /\ pc' = "ingest_analysis"
          /\ UNCHANGED <<faults, ingest_response>>
       \/ IngestFails("download_image")
    /\ UNCHANGED <<not_ingest, calls, photo_analysis, metadata, embeddings, storage,
                   photos>>

\* Mutant of IngestAnalysis: a stream that raises is taken as ended, and the
\* text read so far is kept.
IngestAnalysis_KeepsPartialText ==
    /\ pc = "ingest_analysis"
    /\ Called("generate_analysis", [date |-> metadata.datetime,
                                    location |-> metadata.formatted_address])
    /\ \/ /\ \E f \in TextFragments : photo_analysis' = JoinTexts(f)
          /\ pc' = "ingest_embeddings"
          /\ UNCHANGED <<faults, ingest_response>>
       \/ /\ IngestFails("generate_analysis")
          /\ UNCHANGED photo_analysis
       \/ /\ \E t \in PartialTexts(TextFragments) : photo_analysis' = t
          /\ faults' = faults \cup {"generate_analysis"}
          /\ pc' = "ingest_embeddings"
          /\ UNCHANGED ingest_response
    /\ UNCHANGED <<not_ingest, metadata, embeddings, storage, photos>>

\* ingest_photo.py:150-163: await generate_analysis(...), then the stream is
\* read to its end with a plain for loop; fragments without a text are passed
\* over.  When the stream raises, photo_analysis holds the texts read before.
IngestAnalysis ==
    /\ pc = "ingest_analysis"
    /\ Called("generate_analysis", [date |-> metadata.datetime,
                                    location |-> metadata.formatted_address])
    /\ \/ /\ \E f \in TextFragments : photo_analysis' = JoinTexts(f)
          /\ pc' = "ingest_embeddings"
          /\ UNCHANGED <<faults, ingest_response>>
       \/ /\ IngestFails("generate_analysis")              \* the call raises
          /\ UNCHANGED photo_analysis
       \/ /\ \E t \in PartialTexts(TextFragments) :        \* the stream raises
                photo_analysis' = t
          /\ IngestFails("generate_analysis")
    /\ UNCHANGED <<not_ingest, metadata, embeddings, storage, photos>>

\* ingest_photo.py:166  await generate_embeddings(photo_analysis, ...)
\* (ingest_photo.py:19-57).
IngestEmbeddings ==
    /\ pc = "ingest_embeddings"
    /\ Called("generate_embeddings", [text_content |-> photo_analysis])
    /\ \/ /\ embeddings' = Embedding
          /\ pc' = "ingest_store"
          /\ UNCHANGED <<faults, ingest_response>>
       \/ /\ IngestFails("generate_embeddings")
          /\ UNCHANGED embeddings
    /\ UNCHANGED <<not_ingest, photo_analysis, metadata, storage, photos>>

\* ingest_photo.py:169-176  await store_photo_in_db(...)  (ingest_photo.py:59-121),
\* then the result is returned.
IngestStore ==
    /\ pc = "ingest_store"
    /\ Called("store_photo_in_db", [photo_url |-> ObjectOf(file).url,
                                    photo_analysis |-> photo_analysis,
                                    embeddings |-> embeddings])
    /\ \/ /\ photos' = Append(photos,
                             [photo_url |-> ObjectOf(file).url,
                              taken_at |-> taken_at(metadata.datetime),
                              formatted_address |-> metadata.formatted_address,
                              photo_analysis |-> photo_analysis,
                              photo_analysis_vector |-> embeddings])
          /\ ingest_response' = "200"
          /\ pc' = "ingest_done"
          /\ UNCHANGED faults
       \/ /\ IngestFails("store_photo_in_db")   \* no client, the insert raises or
          /\ UNCHANGED photos                   \* returns no row
    /\ UNCHANGED <<not_ingest, photo_analysis, metadata, embeddings, storage>>

\* The image a caller of POST /db/insert/searches sends with the query, and how
\* many such requests are followed.
QueryImage == [filename |-> "query.jpg", content_type |-> "image/jpeg"]
MaxRouteUploads == 1

\* The objects create_search has put in the bucket.
RouteUploads == { i \in 1..Len(storage) : storage[i] = ObjectOf(QueryImage) }

\* routes/db.py:59-123, create_search with an image: upload_image_to_storage
\* puts the image in the bucket (get_photo_url.py:218), then store_photo_in_db
\* is called without photo_analysis and embeddings (83-86), which raises
\* TypeError: the route answers 500, no photos row is written and the object
\* stays.  When the upload itself fails before line 218 nothing changes.  The
\* route runs while ingest_photo waits or is over; it is no call of
\* ingest_photo and leaves its locals and its record of calls alone.
create_search ==
    /\ pc \in {"ingest_upload", "ingest_upload_read", "ingest_geocode_get",
               "ingest_geocode_json", "ingest_download", "ingest_download_get",
               "ingest_download_read", "ingest_done"}
    /\ Cardinality(RouteUploads) < MaxRouteUploads
    /\ storage' = Append(storage, ObjectOf(QueryImage))
    /\ UNCHANGED <<not_ingest, pc, calls, faults, ingest_response, photo_analysis,
                   metadata, embeddings, photos>>

NextIngest ==
    \/ IngestUploadRequest
    \/ IngestUploadRead
    \/ IngestGeocodeGet
    \/ IngestGeocodeJson
    \/ IngestDownloadRequest
    \/ IngestDownload
    \/ IngestDownloadRead
    \/ IngestAnalysis
    \/ IngestEmbeddings
    \/ IngestStore
    \/ create_search

SpecIngest == InitIngest /\ [][NextIngest]_vars

SpecRetriever == InitRetriever /\ [][NextRetriever]_vars

TypeOK ==
    /\ pc \in {"start", "extract_call", "extract_stream", "image_start", "download",
               "image_call", "image_stream", "photo_lookup", "format_start",
               "format_call", "format_parse", "search_start", "retrieve",
               "create_search_result", "empty_complete", "reasoning_start", "loop",
               "reasoning_call", "reasoning_parse", "details_call", "details_parse",
               "insert_match", "final", "post_complete", "done", "cancelled",
               "raised", "download_get", "download_read",
               "rpc_returned", "retriever_done", "chat_start", "chat_match",
               "chat_user_chat", "chat_create", "chat_history", "chat_question",
               "chat_answer_call", "chat_answer_stream", "chat_answer_insert",
               "concurrent", "batch_start", "batch_raised", "batch_loop", "batch_done", "ingest_upload",
               "ingest_upload_read", "ingest_geocode_get", "ingest_geocode_json",
               "ingest_download_get", "ingest_download_read",
               "ingest_download", "ingest_analysis", "ingest_embeddings", "ingest_store",
               "ingest_done"}
    /\ atYield \in BOOLEAN
    /\ idx \in 0..Len(similar_images)
    /\ Len(similar_images) <= MatchCount

(***************************************************************************)
(* Reading the event stream                                                *)
(***************************************************************************)

EventNames == [k \in 1..Len(events) |-> events[k].event]

Has(name) == \E k \in 1..Len(events) : events[k].event = name

Count(name) == Cardinality({k \in 1..Len(events) : events[k].event = name})

\* The payload of the first event called name.
DataOf(name) == events[CHOOSE k \in 1..Len(events) : events[k].event = name].data

RECURSIVE ChunkTextOf(_, _)
\* The chunk payloads of the events called name, concatenated in order.
ChunkTextOf(evs, name) ==
    IF evs = <<>> THEN ""
    ELSE (IF Head(evs).event = name THEN Head(evs).data.chunk ELSE "")
         \o ChunkTextOf(Tail(evs), name)

ChunkText(name) == ChunkTextOf(events, name)

IsPrefix(a, b) == Len(a) <= Len(b) /\ SubSeq(b, 1, Len(a)) = a

RECURSIVE Repeat(_, _)
Repeat(n, seq) == IF n = 0 THEN <<>> ELSE seq \o Repeat(n - 1, seq)

\* No collaborator call of the run has failed: none raised, the download
\* answered 200, and every insert returned its row.
NoFailure == faults = {}

Finished == pc = "done"

(***************************************************************************)
(* The event grammar of spec section 6                                     *)
(***************************************************************************)

FormatOutcomeEvent ==
    IF Has("format_query_error") THEN "format_query_error" ELSE "format_query_complete"

\* The events up to search_complete, with as many chunk events as were emitted.
PatternHead ==
    <<"extract_query_start">>
    \o [k \in 1..Count("extract_query_chunk") |-> "extract_query_chunk"]
    \o <<"extract_query_complete">>
    \o (IF Truthy(image_url)
        THEN <<"image_analysis_start">>
             \o [k \in 1..Count("image_analysis_chunk") |-> "image_analysis_chunk"]
             \o <<"image_analysis_complete">>
        ELSE <<>>)
    \o <<"format_query_start", FormatOutcomeEvent, "search_start", "search_complete">>

PerCandidate ==
    <<"reasoning_progress", "interesting_details_progress", "match_reasoning_complete">>

\* The sequence as the claim gives it: the reasoning stage always opens and closes.
ClaimedPattern ==
    PatternHead \o <<"reasoning_start">> \o Repeat(Len(similar_images), PerCandidate)
    \o <<"reasoning_complete", "complete">>

\* The sequence with the short cut of an empty candidate list (search.py:163-185).
PatternWithShortCut ==
    PatternHead
    \o (IF similar_images = <<>> THEN <<>>
        ELSE <<"reasoning_start">> \o Repeat(Len(similar_images), PerCandidate)
             \o <<"reasoning_complete">>)
    \o <<"complete">>

\* The exceptions a response parser lets through (a JSON value that is no object).
ParserExceptions == {"TypeError", "AttributeError"}

(***************************************************************************)
(* C1                                                                      *)
(***************************************************************************)

\* C1 as stated, read on the runs that reach complete (a run that a response
\* parser's uncaught exception cuts short departs from it too; that is C7's
\* subject): a finished run in which no collaborator call failed has emitted
\* exactly extract_query_start, chunks, extract_query_complete, the image block
\* when an image URL is given, format_query_start, format_query_complete or
\* format_query_error, search_start, search_complete, reasoning_start, the three
\* per-candidate events once per candidate, reasoning_complete, complete.
C1_EventOrderAsClaimed ==
    (Finished /\ NoFailure /\ Has("complete")) => EventNames = ClaimedPattern

\* C1 amended: in every run in which no collaborator call fails, the events
\* emitted so far are a prefix of the sequence in which an empty candidate list
\* goes from search_complete straight to complete (no reasoning_start, no
\* reasoning_complete); a finished run has emitted that whole sequence, or a
\* proper prefix of it closed by one error event that a response parser's
\* uncaught exception produced.
C1_EventOrder ==
    NoFailure =>
        IF Finished
        THEN \/ EventNames = PatternWithShortCut
             \/ /\ events # <<>>
                /\ events[Len(events)].event = "error"
                /\ events[Len(events)].data.exc \in ParserExceptions
                /\ Len(events) - 1 < Len(PatternWithShortCut)
                /\ IsPrefix(SubSeq(EventNames, 1, Len(events) - 1), PatternWithShortCut)
        ELSE IsPrefix(EventNames, PatternWithShortCut)

\* A finished failure-free run with an image and two candidates.
C1_Witness ==
    /\ Finished /\ NoFailure
    /\ Truthy(image_url)
    /\ Count("image_analysis_chunk") = 2
    /\ Count("match_reasoning_complete") = 2
    /\ Has("complete")

(***************************************************************************)
(* C2                                                                      *)
(***************************************************************************)

\* C2: an error event is terminal and unique: at most one error event per run,
\* no event of any kind after it, and never both an error and a complete event,
\* whatever failed (a download answered with another status than 200 included).
C2_ErrorIsTerminal ==
    /\ \A k \in 1..Len(events) : events[k].event = "error" => k = Len(events)
    /\ Count("error") <= 1
    /\ ~(Has("error") /\ Has("complete"))

(***************************************************************************)
(* C3                                                                      *)
(***************************************************************************)

\* C3: when the extract-query or the image-analysis stage ends on a single-pass
\* fragment sequence, the text its _complete event carries, which is the text
\* every later stage uses, is the in-order concatenation of the chunks its
\* _chunk events carried.
C3_CompleteCarriesTheChunks ==
    [][ /\ (pc = "extract_stream" /\ pc' \in {"image_start", "format_start"}
            /\ ~stream.restartable)
           => /\ extracted_details' = ChunkText("extract_query_chunk")'
              /\ events'[Len(events')].data.extracted_details
                    = ChunkText("extract_query_chunk")'
        /\ (pc = "image_stream" /\ pc' = "photo_lookup" /\ ~stream.restartable)
           => /\ image_analysis' = ChunkText("image_analysis_chunk")'
              /\ events'[Len(events')].data.image_analysis
                    = ChunkText("image_analysis_chunk")'
      ]_vars

(***************************************************************************)
(* C4                                                                      *)
(***************************************************************************)

\* The run has got past the return of perform_similarity_search.
RetrievalReturned ==
    pc \in {"create_search_result", "empty_complete", "reasoning_start", "loop",
            "reasoning_call", "reasoning_parse", "details_call", "details_parse",
            "insert_match", "final", "post_complete"}
    \/ (pc = "done" /\ retrieval_query # None)

\* C4: a match row exists only if the run's search-result row was created before
\* it, and the match row's search_result_id is that row's id; the search-result
\* row is created at most once, only after retrieval has returned, and it exists
\* whenever search_complete has been emitted, an empty candidate list included.
C4_SearchResultBeforeMatches ==
    /\ Len(search_results) <= 1
    /\ search_results # <<>> => RetrievalReturned
    /\ \A k \in 1..Len(matches) :
          /\ search_results # <<>>
          /\ matches[k].search_result_id = search_results[1].id
    /\ Has("search_complete") => Len(search_results) = 1
    /\ pc = "empty_complete" => (similar_images = <<>> /\ Len(search_results) = 1)
    /\ pc = "insert_match" => Len(search_results) = 1

\* Two match rows written under the run's search-result row.
C4_Witness ==
    /\ Len(matches) = 2
    /\ Len(search_results) = 1
    /\ matches[2].search_result_id = search_results[1].id

(***************************************************************************)
(* C5                                                                      *)
(***************************************************************************)

\* C5: the photo update of a run with an image URL is made only after the run's
\* retrieval has returned and after its complete event has been emitted, so the
\* candidate list was computed against a photo store without this run's update.
C5_PhotoUpdateIsDeferred ==
    /\ photo_updates # <<>> =>
          /\ Truthy(image_url)
          /\ retrieval_query # None
          /\ Has("complete")
          /\ Finished
    /\ store_at_retrieval = <<>>

\* The photo update was made.
C5_Witness ==
    /\ Truthy(image_url)
    /\ Len(photo_updates) = 1
    /\ similar_images # <<>>

(***************************************************************************)
(* C6                                                                      *)
(***************************************************************************)

\* C6: in a finished run with an image URL whose image-analysis stage produced
\* non-empty fragments and whose search row names a photo id, the photo update
\* was called exactly once, after complete, with the whole text the image-
\* analysis stage produced (the call may itself have failed inside).
C6_PhotoUpdateAfterComplete ==
    (/\ Finished
     /\ Has("complete")
     /\ Truthy(image_url)
     /\ Has("image_analysis_complete")
     /\ ChunkText("image_analysis_chunk") # ""
     /\ Truthy(photo_id_to_update))
    => \/ photo_updates = <<[id |-> photo_id_to_update,
                             photo_analysis |-> ChunkText("image_analysis_chunk")]>>
       \/ (photo_updates = <<>> /\ "update_photo_analysis" \in faults)

(***************************************************************************)
(* C7                                                                      *)
(***************************************************************************)

\* A stage output that is no JSON object: no JSON at all (the empty text
\* included), or JSON whose top-level value is a list, a string or a number.
NotAnObject(t) == json_loads(t).kind # "dict"

\* C7: whenever a structured stage (format-query, reasoning, interesting-details)
\* has returned a text that is no JSON object, the parse step does not abort the
\* run: it applies the documented fallback and the run goes on to the next stage.
C7_MalformedOutputNeverAborts ==
    [][ /\ (pc = "format_parse" /\ NotAnObject(formatted_query_response))
           => /\ pc' = "search_start"
              /\ formatted_query' = Query
              /\ formatting_explanation' = FormatFallbackExplanation
        /\ (pc = "reasoning_parse" /\ NotAnObject(reasoning_response))
           => /\ pc' = "details_call"
              /\ reasons' = ReasonsFallback
        /\ (pc = "details_parse" /\ NotAnObject(interesting_details_response))
           => /\ pc' = "insert_match"
              /\ interesting_details' = JoinNL(<<>>)
      ]_vars

(***************************************************************************)
(* C8 and C9                                                               *)
(***************************************************************************)

\* The format-query stage has returned and its response has been parsed.
FormatParsed ==
    /\ Has("format_query_start")
    /\ pc \notin {"format_call", "format_parse"}
    /\ "generate_format_query" \notin faults

FormatJson == json_loads(formatted_query_response)

\* The position of the first event called name.
IndexOf(name) == CHOOSE k \in 1..Len(events) : events[k].event = name

\* C8: when the format-query stage returned non-JSON text, format_query_error is
\* emitted and format_query_complete is not, the next event is search_start (the
\* run goes on to retrieval), and the formatted_query given to retrieval and
\* reported in the final aggregate is the original query, with
\* formatting_explanation "Error formatting query".
C8_NonJsonFormatFallsBack ==
    (FormatParsed /\ FormatJson.kind = "JSONDecodeError") =>
        /\ Count("format_query_error") = 1
        /\ ~Has("format_query_complete")
        /\ DataOf("format_query_error").formatted_query = Query
        /\ formatted_query = Query
        /\ formatting_explanation = FormatFallbackExplanation
        /\ IF Len(events) > IndexOf("format_query_error")
           THEN events[IndexOf("format_query_error") + 1].event = "search_start"
           ELSE pc = "search_start"
        /\ retrieval_query # None => retrieval_query = Query
        /\ Has("complete") =>
              /\ DataOf("complete").formatted_query = Query
              /\ DataOf("complete").formatting_explanation = FormatFallbackExplanation

\* A run that got non-JSON text from the format-query stage and completed.
C8_Witness ==
    /\ Finished
    /\ Has("complete")
    /\ formatted_query_response = NotJsonText
    /\ retrieval_query = Query
    /\ similar_images # <<>>

\* C9: when the format-query stage returned a JSON object that lacks
\* formatted_query or explanation, formatted_query is the original query,
\* explanation is "Error formatting query", and format_query_error is emitted
\* rather than format_query_complete.
C9_MissingFieldFallsBackAsClaimed ==
    (/\ FormatParsed
     /\ FormatJson.kind = "dict"
     /\ (~HasKey(FormatJson, "formatted_query") \/ ~HasKey(FormatJson, "explanation")))
    => /\ formatted_query = Query
       /\ formatting_explanation = FormatFallbackExplanation
       /\ Has("format_query_error")
       /\ ~Has("format_query_complete")

(***************************************************************************)
(* C10                                                                     *)
(***************************************************************************)

\* The reasoning output does not parse, or parses to an object without reasons.
ReasoningFellBack(t) ==
    LET j == json_loads(t)
    IN  j.kind = "JSONDecodeError" \/ (j.kind = "dict" /\ ~HasKey(j, "reasons"))

\* C10: when the reasoning output of a candidate does not parse or lacks reasons,
\* the run goes on with reasons = ["Unable to determine reasoning for this
\* match"]; the candidate's row, its record and its match_reasoning_complete
\* event carry exactly that list; no run is cut short at the reasoning parse
\* because of such an output; and a run without failure that completes has
\* persisted and emitted every candidate.
C10_ReasoningFallback ==
    /\ (pc \in {"details_call", "details_parse", "insert_match"}
        /\ ReasoningFellBack(reasoning_response))
       => reasons = ReasonsFallback
    /\ (pc = "loop" /\ idx >= 1 /\ atYield /\ ReasoningFellBack(reasoning_response))
       => /\ events[Len(events)].event = "match_reasoning_complete"
          /\ events[Len(events)].data.reasons = ReasonsFallback
          /\ events[Len(events)].data.rank = similar_images[idx].rank
          /\ matches_with_reasoning[Len(matches_with_reasoning)].reasons = ReasonsFallback
          /\ matches[Len(matches)].rank = similar_images[idx].rank
          /\ matches[Len(matches)].reason_for_match = ReasonsFallback[1]
    /\ (/\ Finished /\ NoFailure /\ Len(events) >= 2
        /\ events[Len(events)].event = "error"
        /\ events[Len(events) - 1].event = "reasoning_progress")
       => ~ReasoningFellBack(reasoning_response)
    /\ (Finished /\ NoFailure /\ Has("complete"))
       => /\ Len(matches) = Len(similar_images)
          /\ Count("match_reasoning_complete") = Len(similar_images)

\* The first candidate's reasoning fell back, it was persisted, and the second
\* candidate was processed with its own reasons.
C10_Witness ==
    /\ Finished
    /\ Has("complete")
    /\ Len(matches) = 2
    /\ matches[1].reason_for_match = ReasonsFallback[1]
    /\ matches[2].reason_for_match # ReasonsFallback[1]
    /\ DataOf("complete").matches[1].reasons = ReasonsFallback

(***************************************************************************)
(* C11                                                                     *)
(***************************************************************************)

\* The interesting-details output of the current candidate does not parse.
DetailsFailedToParse ==
    json_loads(interesting_details_response).kind = "JSONDecodeError"

\* The last step persisted and emitted the candidate of the turn that ended.
CandidateEmitted ==
    /\ pc = "loop" /\ idx >= 1 /\ atYield
    /\ events[Len(events)].event = "match_reasoning_complete"

\* C11: when the interesting-details output of a candidate fails to parse, the
\* candidate is persisted and emitted, and the interesting_details list of its
\* record, in match_reasoning_complete and in the list that becomes the final
\* aggregate's matches, is the empty list.
C11_DetailsFallbackIsEmptyList ==
    (CandidateEmitted /\ DetailsFailedToParse) =>
        /\ events[Len(events)].data.interesting_details = <<>>
        /\ matches_with_reasoning[Len(matches_with_reasoning)].interesting_details = <<>>

(***************************************************************************)
(* C12                                                                     *)
(***************************************************************************)

\* The number of rows of the matches table flagged as best match.
BestMatchRows == Cardinality({k \in 1..Len(matches) : matches[k].is_best_match})

\* C12: with N candidates returned by retrieval and no failed match insert, the
\* ranks of the final aggregate's matches are 0, ..., N-1, each once and in
\* ascending order, and the number of persisted match rows with is_best_match
\* true is one when N > 0 and zero when N = 0.
C12_RanksAndBestMatch ==
    (Has("complete") /\ "insert_match" \notin faults) =>
        LET ms == DataOf("complete").matches
            N == Len(similar_images)
        IN  /\ Len(ms) = N
            /\ \A k \in 1..N : ms[k].rank = k - 1
            /\ BestMatchRows = IF N > 0 THEN 1 ELSE 0

\* A completed run over two candidates, both persisted.
C12_Witness ==
    /\ Has("complete")
    /\ "insert_match" \notin faults
    /\ Len(similar_images) = 2
    /\ Len(DataOf("complete").matches) = 2
    /\ matches[1].is_best_match /\ ~matches[2].is_best_match

(***************************************************************************)
(* C13                                                                     *)
(***************************************************************************)

\* C13: every persisted match row has is_best_match = (rank = 0), carries the
\* rank retrieval gave its candidate, and shares its rank with no other row of
\* the run, also when a candidate was skipped because its insert failed.
C13_MatchRowInvariant ==
    \A k \in 1..Len(matches) :
        /\ matches[k].is_best_match = (matches[k].rank = 0)
        /\ \E c \in 1..Len(similar_images) :
              /\ similar_images[c].id = matches[k].photo_id
              /\ similar_images[c].rank = matches[k].rank
        /\ \A j \in 1..Len(matches) : j # k => matches[j].rank # matches[k].rank

\* The first candidate was skipped and the second one persisted.
C13_Witness ==
    /\ "insert_match" \in faults
    /\ Len(matches) = 1
    /\ matches[1].rank = 1
    /\ ~matches[1].is_best_match

(***************************************************************************)
(* C14                                                                     *)
(***************************************************************************)

\* The candidate that retrieval ranked as the record says.
HasRetrievalRank(rec) ==
    \E c \in 1..Len(similar_images) :
        similar_images[c].id = rec.photo_id /\ similar_images[c].rank = rec.rank

\* C14: when the only collaborator failures of a run are failed match inserts
\* (no row came back, or the store call raised), the run is not aborted: no
\* error event comes of it, and the finished run has emitted complete with
\* fewer records than candidates, each with the rank retrieval gave it.
C14_MatchInsertFailureIsSkipped ==
    faults = {"insert_match"} =>
        /\ \A k \in 1..Len(events) :
              events[k].event = "error" => events[k].data.exc \in ParserExceptions
        /\ (Finished /\ ~Has("error")) =>
              /\ Has("complete")
              /\ Len(DataOf("complete").matches) < Len(similar_images)
              /\ \A k \in 1..Len(DataOf("complete").matches) :
                    HasRetrievalRank(DataOf("complete").matches[k])

(***************************************************************************)
(* C15                                                                     *)
(***************************************************************************)

\* The events that belong to the reasoning loop.
ReasoningEvents ==
    {"reasoning_start", "reasoning_progress", "interesting_details_progress",
     "match_reasoning_complete", "reasoning_complete"}

\* The number of error events a run has emitted when one failure ended it: the
\* terminal one, and before it the one of a download that answered another
\* status than 200, after which the run went on (search.py:106-109).
ErrorsOfAbortedRun == IF "download" \in faults THEN 2 ELSE 1

\* C15: when the insert of the search-result row fails (no row comes back, or
\* the call raises), the run ends there with one error event, which follows
\* search_start directly: no search_complete, no reasoning event and no
\* complete event is emitted, no match row is written and no photo update is
\* made.
C15_SearchResultFailureIsFatal ==
    "insert_search_result" \in faults =>
        /\ Finished
        /\ events[Len(events)].event = "error"
        /\ events[Len(events) - 1].event = "search_start"
        /\ Count("error") = ErrorsOfAbortedRun
        /\ ~Has("search_complete")
        /\ ~Has("complete")
        /\ \A k \in 1..Len(events) : events[k].event \notin ReasoningEvents
        /\ search_results = <<>>
        /\ matches = <<>>
        /\ photo_updates = <<>>

\* The insert of the search-result row failed after retrieval found candidates,
\* in a run that has a photo to update.
C15_Witness ==
    /\ "insert_search_result" \in faults
    /\ similar_images # <<>>
    /\ Truthy(photo_id_to_update)
    /\ Truthy(image_analysis)

(***************************************************************************)
(* C16                                                                     *)
(***************************************************************************)

\* The run has an image whose analysis stage produced text and a photo row to
\* write it to: the deferred photo update applies.
PhotoUpdateApplies ==
    /\ Truthy(image_url)
    /\ Has("image_analysis_complete")
    /\ ChunkText("image_analysis_chunk") # ""
    /\ Truthy(photo_id_to_update)

\* C16: when retrieval returned an empty candidate list and the search-result
\* insert did not fail, the search-result row is created, search_complete and
\* then complete with an empty matches list are the events after search_start,
\* no reasoning event is emitted and no match row is written, and the finished
\* run has made the deferred photo update where it applies.
C16_EmptyRetrievalShortCut ==
    (RetrievalReturned /\ similar_images = <<>> /\ "insert_search_result" \notin faults) =>
        /\ \A k \in 1..Len(events) : events[k].event \notin ReasoningEvents
        /\ matches = <<>>
        /\ pc # "create_search_result" =>
              (Len(search_results) = 1 /\ Has("search_complete"))
        /\ Finished =>
              /\ Len(events) >= 3
              /\ events[Len(events) - 2].event = "search_start"
              /\ events[Len(events) - 1].event = "search_complete"
              /\ events[Len(events)].event = "complete"
              /\ events[Len(events)].data.matches = <<>>
              /\ PhotoUpdateApplies =>
                    \/ photo_updates =
                          <<[id |-> photo_id_to_update,
                             photo_analysis |-> ChunkText("image_analysis_chunk")]>>
                    \/ (photo_updates = <<>> /\ "update_photo_analysis" \in faults)

(***************************************************************************)
(* C17                                                                     *)
(***************************************************************************)

\* An inference call of the reasoning loop has failed.
LoopInferenceFailed ==
    faults \cap {"generate_reasoning", "generate_intresting_details"} # {}

\* The payloads of the match_reasoning_complete events, in order.
RECURSIVE EmittedRecords(_)
EmittedRecords(evs) ==
    IF evs = <<>> THEN <<>>
    ELSE (IF Head(evs).event = "match_reasoning_complete" THEN <<Head(evs).data>> ELSE <<>>)
         \o EmittedRecords(Tail(evs))

\* C17: when the reasoning or the detail-extraction call fails at candidate k,
\* the run ends there with one error event and without reasoning_complete or
\* complete; the search-result row and the match rows of the candidates
\* emitted before are all still there, with the ids and ranks they were
\* emitted with, and no photo update is made.
C17_LoopFailureKeepsRows ==
    LoopInferenceFailed =>
        /\ Finished
        /\ events[Len(events)].event = "error"
        /\ events[Len(events) - 1].event \in
              {"reasoning_progress", "interesting_details_progress"}
        /\ Count("error") = ErrorsOfAbortedRun
        /\ ~Has("reasoning_complete")
        /\ ~Has("complete")
        /\ search_results = <<[id |-> search_result_id, search_id |-> SearchId]>>
        /\ Len(matches) = Len(EmittedRecords(events))
        /\ \A k \in 1..Len(matches) :
              /\ matches[k].id = EmittedRecords(events)[k].id
              /\ matches[k].rank = EmittedRecords(events)[k].rank
              /\ matches[k].photo_id = EmittedRecords(events)[k].photo_id
              /\ matches[k].search_result_id = search_result_id
        /\ photo_updates = <<>>

\* The detail-extraction call failed at the second candidate, after the first
\* one had been persisted.
C17_Witness ==
    /\ "generate_intresting_details" \in faults
    /\ Len(matches) = 1
    /\ idx = 1
    /\ Truthy(photo_id_to_update)
    /\ Truthy(image_analysis)

(***************************************************************************)
(* C19                                                                     *)
(***************************************************************************)

\* The record carries the best-match flag, and the flag says rank = 0.
CarriesBestMatchFlag(rec) ==
    /\ "is_best_match" \in DOMAIN rec
    /\ rec.is_best_match = (rec.rank = 0)

\* C19: every match_reasoning_complete event and every entry of the final
\* aggregate's matches list carries the is_best_match flag, with the value
\* (rank = 0).
C19_RecordsCarryBestMatchFlag ==
    /\ \A k \in 1..Len(events) :
          events[k].event = "match_reasoning_complete" =>
              CarriesBestMatchFlag(events[k].data)
    /\ Has("complete") =>
          \A k \in 1..Len(DataOf("complete").matches) :
              CarriesBestMatchFlag(DataOf("complete").matches[k])

(***************************************************************************)
(* C20                                                                     *)
(***************************************************************************)

\* C20: in a run that has emitted complete, the match_reasoning_complete events
\* come in ascending rank order, one per persisted match row and none for a
\* skipped candidate; the final aggregate's matches list is the sequence of
\* their payloads; and reasoning_complete.matches_count, when the event was
\* emitted, is the length of that list and the number of match rows, and is at
\* most search_complete.matches_count.  Without reasoning_complete the run took
\* the short cut of an empty candidate list and all three are empty.
C20_EmittedMatchesInRankOrder ==
    Has("complete") =>
        LET recs == EmittedRecords(events)
            ms == DataOf("complete").matches
        IN  /\ ms = recs
            /\ \A j, k \in 1..Len(recs) : j < k => recs[j].rank < recs[k].rank
            /\ Len(recs) = Len(matches)
            /\ \A k \in 1..Len(recs) :
                  /\ recs[k].id = matches[k].id
                  /\ recs[k].rank = matches[k].rank
                  /\ recs[k].photo_id = matches[k].photo_id
            /\ Has("reasoning_complete") =>
                  /\ DataOf("reasoning_complete").matches_count = Len(ms)
                  /\ DataOf("reasoning_complete").matches_count = Len(matches)
                  /\ DataOf("reasoning_complete").matches_count
                        <= DataOf("search_complete").matches_count
            /\ ~Has("reasoning_complete") =>
                  (similar_images = <<>> /\ ms = <<>> /\ matches = <<>>)

\* A completed run over two candidates of which the first was skipped.
C20_Witness ==
    /\ Has("complete")
    /\ Len(similar_images) = 2
    /\ "insert_match" \in faults
    /\ Len(DataOf("complete").matches) = 1
    /\ DataOf("complete").matches[1].rank = 1
    /\ DataOf("reasoning_complete").matches_count = 1

(***************************************************************************)
(* Reading the log of collaborator calls                                   *)
(***************************************************************************)

\* The argument records of the calls of one collaborator, as a set.
ArgsOf(call) == {calls[k].args : k \in {j \in 1..Len(calls) : calls[j].call = call}}

WasCalled(call) == ArgsOf(call) # {}

ImageEvents == {"image_analysis_start", "image_analysis_chunk", "image_analysis_complete"}

(***************************************************************************)
(* C21                                                                     *)
(***************************************************************************)

\* C21: the image-analysis stage is entered iff the request carries an image
\* URL.  A run with one has emitted image_analysis_start by the time it
\* emits format_query_start; a run without one emits no image event, downloads
\* nothing, looks up no photo, passes None as image analysis to the format-query
\* and reasoning stages, and makes no photo update.
C21_ImageStageIffImageUrl ==
    /\ Has("image_analysis_start") => Truthy(image_url)
    /\ (Truthy(image_url) /\ Has("format_query_start")) => Has("image_analysis_start")
    /\ ~Truthy(image_url) =>
          /\ \A k \in 1..Len(events) : events[k].event \notin ImageEvents
          /\ ~WasCalled("download")
          /\ ~WasCalled("select_search")
          /\ \A a \in ArgsOf("generate_format_query") : a.image_analysis = None
          /\ \A a \in ArgsOf("generate_reasoning") : a.image_analysis = None
          /\ photo_updates = <<>>

\* A completed run without an image URL that reasoned about two candidates.
C21_Witness ==
    /\ ~Truthy(image_url)
    /\ Finished
    /\ Has("complete")
    /\ WasCalled("generate_format_query")
    /\ Len(matches) = 2
    /\ WasCalled("generate_reasoning")

(***************************************************************************)
(* C22                                                                     *)
(***************************************************************************)

\* C22: perform_similarity_search returns one candidate per entry of the
\* response, in the response's order and with the entry's fields, ranked by the
\* entry's 0-based index, whatever the similarity values are; a response
\* without data gives the empty list.
C22_RankIsResponseIndex ==
    pc = "retriever_done" =>
        IF response.hasData
        THEN /\ Len(similar_images) = Len(response.data)
             /\ \A x \in 1..Len(response.data) :
                   /\ similar_images[x].id = response.data[x].id
                   /\ similar_images[x].photo_url = response.data[x].photo_url
                   /\ similar_images[x].photo_analysis = response.data[x].photo_analysis
                   /\ similar_images[x].similarity = response.data[x].similarity
                   /\ similar_images[x].rank = x - 1
        ELSE similar_images = <<>>

\* A response of three rows that is not sorted, holds a tie and names one photo
\* twice.
C22_Witness ==
    /\ pc = "retriever_done"
    /\ Len(response.data) = 3
    /\ response.data[1].similarity < response.data[2].similarity
    /\ response.data[2].similarity = response.data[3].similarity
    /\ response.data[1].id = response.data[3].id
    /\ Len(similar_images) = 3

(***************************************************************************)
(* C23                                                                     *)
(***************************************************************************)

\* C23: when the caller stops consuming, the step that closes the generator
\* emits no event and leaves the search-result, match and photo rows as they
\* are, and a closed generator takes no further step: no event and no write
\* follows, and no row already written is deleted or modified.
C23_CancelStopsTheRun ==
    [][ /\ pc # "cancelled"
        /\ pc' = "cancelled" =>
              /\ events' = events
              /\ search_results' = search_results
              /\ matches' = matches
              /\ photo_updates' = photo_updates
      ]_vars

\* A run closed inside the reasoning loop, after one match row was written.
C23_Witness ==
    /\ pc = "cancelled"
    /\ Len(search_results) = 1
    /\ Len(matches) = 1
    /\ Len(similar_images) = 2
    /\ events[Len(events)].event = "match_reasoning_complete"

(***************************************************************************)
(* C24                                                                     *)
(***************************************************************************)

\* The formatted query the run reported, in format_query_complete or in
\* format_query_error.
ReportedFormattedQuery ==
    IF Has("format_query_complete")
    THEN DataOf("format_query_complete").formatted_query
    ELSE DataOf("format_query_error").formatted_query

\* The image analysis the run reported, None when it reported none.
ReportedImageAnalysis ==
    IF Has("image_analysis_complete")
    THEN DataOf("image_analysis_complete").image_analysis
    ELSE None

\* C24: the query text given to retrieval and the formatted_query given to
\* every reasoning call are the formatted_query the run reported in
\* format_query_complete or format_query_error, and the final aggregate
\* carries it too; the extracted details given to format-query and reasoning
\* are those of extract_query_complete; the image analysis given to
\* format-query and to every reasoning call is the text of
\* image_analysis_complete (None when there is no such event).
C24_StagesUseResolvedOutputs ==
    /\ retrieval_query # None => retrieval_query = ReportedFormattedQuery
    /\ \A a \in ArgsOf("generate_format_query") :
          /\ a.query = Query
          /\ a.extracted_details = DataOf("extract_query_complete").extracted_details
          /\ a.image_analysis = ReportedImageAnalysis
    /\ \A a \in ArgsOf("generate_reasoning") :
          /\ a.query = Query
          /\ a.formatted_query = ReportedFormattedQuery
          /\ a.extracted_details = DataOf("extract_query_complete").extracted_details
          /\ a.image_analysis = ReportedImageAnalysis
    /\ Has("complete") =>
          /\ DataOf("complete").formatted_query = ReportedFormattedQuery
          /\ DataOf("complete").extracted_details
                = DataOf("extract_query_complete").extracted_details

\* A completed run with an image, a formatted query that differs from the
\* query, and two reasoning calls.
C24_Witness ==
    /\ Has("complete")
    /\ Truthy(image_analysis)
    /\ Truthy(extracted_details)
    /\ formatted_query # Query
    /\ retrieval_query = formatted_query
    /\ Len(matches) = 2
    /\ \E a \in ArgsOf("generate_reasoning") : a.image_analysis = image_analysis

(***************************************************************************)
(* C25                                                                     *)
(***************************************************************************)

\* The run is over: the generator returned, or raised out of its setup
\* (search.py:50-52 stand before the try of line 54).
Ended == pc \in {"done", "raised"}

\* Every run that is resumed until it ends does end.
RunsEnd == <>Ended

\* C25: a run of search_stream that is over emitted at least one event, and
\* the last event it emitted is complete or error.
C25_EndsWithTerminalEvent ==
    Ended => /\ events # <<>>
             /\ events[Len(events)].event \in {"complete", "error"}

(***************************************************************************)
(* C26                                                                     *)
(***************************************************************************)

DetailsJson == json_loads(interesting_details_response)

\* C26: when the interesting-details stage returned a well-formed object with a
\* list L of strings (the empty list and elements holding a newline included),
\* the interesting_details list of the emitted match record is L, element for
\* element: joining with newlines and splitting again gives the list back.
C26_DetailsRoundTrip ==
    (/\ CandidateEmitted
     /\ DetailsJson.kind = "dict"
     /\ HasKey(DetailsJson, "interesting_details"))
    => events[Len(events)].data.interesting_details
          = DetailsJson.value.interesting_details

(***************************************************************************)
(* C27                                                                     *)
(***************************************************************************)

\* The image download answered another status than 200 (search.py:106-109).
DownloadNotOk ==
    \E k \in 1..Len(events) :
        events[k].event = "error" /\ events[k].data.exc = "status"

\* C27: after an image download that answered another status than 200, the run
\* gives None as image analysis to the format-query and reasoning stages,
\* emits no image_analysis_chunk and no image_analysis_complete, never looks up
\* a photo id to update, and makes no photo update.
C27_FailedDownloadLeavesNoAnalysis ==
    DownloadNotOk =>
        /\ image_analysis = None
        /\ photo_id_to_update = None
        /\ ~Has("image_analysis_chunk")
        /\ ~Has("image_analysis_complete")
        /\ ~WasCalled("select_search")
        /\ \A a \in ArgsOf("generate_format_query") : a.image_analysis = None
        /\ \A a \in ArgsOf("generate_reasoning") : a.image_analysis = None
        /\ photo_updates = <<>>

\* A run that went on after the failed download and returned after complete.
C27_Witness ==
    /\ DownloadNotOk
    /\ Finished
    /\ Has("complete")
    /\ WasCalled("generate_format_query")
    /\ WasCalled("generate_reasoning")

(***************************************************************************)
(* C28                                                                     *)
(***************************************************************************)

\* C28: no event follows complete; when the deferred photo update fails, the
\* run returns with complete as its last event, carrying the aggregate as it
\* was emitted, and the photo row is not written.
C28_NothingAfterComplete ==
    /\ \A k \in 1..Len(events) : events[k].event = "complete" => k = Len(events)
    /\ "update_photo_analysis" \in faults =>
          /\ Finished
          /\ events[Len(events)].event = "complete"
          /\ events[Len(events)].data.matches = matches_with_reasoning
          /\ photo_updates = <<>>

\* The deferred photo update failed after a run over two candidates.
C28_Witness ==
    /\ "update_photo_analysis" \in faults
    /\ Finished
    /\ Len(matches) = 2

(***************************************************************************)
(* C29                                                                     *)
(***************************************************************************)

\* The events before the closing complete or error, if the run has one.
ChatBody ==
    IF events # <<>> /\ events[Len(events)].event \in {"complete", "error"}
    THEN SubSeq(EventNames, 1, Len(events) - 1)
    ELSE EventNames

\* names begins processing, generating, answer_start and goes on with
\* answer_chunk only, or is a prefix of that.
ChatProgress(names) ==
    \A k \in 1..Len(names) :
        names[k] = CASE k = 1 -> "processing"
                     [] k = 2 -> "generating"
                     [] k = 3 -> "answer_start"
                     [] OTHER -> "answer_chunk"

\* The match was looked up and it is missing or has no photo analysis.
NoUsableMatch ==
    /\ WasCalled("select_matches")
    /\ "select_matches" \notin faults
    /\ match_query = <<>> \/ ~Truthy(photo_analysis)

\* C29: the events of a run of chat_message_stream are processing, generating,
\* answer_start, any number of answer_chunk, then complete; or a prefix of the
\* events before complete closed by one error.  Nothing follows complete or
\* error, and a run that returned ended with one of them.  When the match is
\* missing or has no photo analysis the events are processing then error, and
\* the run wrote no user_chats row and no chat_messages row.
C29_ChatEventOrder ==
    /\ ChatProgress(ChatBody)
    /\ Has("complete") => Len(ChatBody) >= 3
    /\ Has("complete") \/ Has("error") => Finished
    /\ Finished => Count("complete") + Count("error") = 1
    /\ NoUsableMatch =>
          /\ EventNames = <<"processing", "error">>
          /\ Finished
          /\ user_chats = <<>>
          /\ chat_messages = <<>>

\* A match whose photo is there but has no analysis was asked about.
C29_Witness ==
    /\ NoUsableMatch
    /\ match_query # <<>>
    /\ match_query[1].photos.present
    /\ Finished

(***************************************************************************)
(* C30                                                                     *)
(***************************************************************************)

\* The chat_messages rows of the run that hold an answer.
AnswerRows == {k \in 1..Len(chat_messages) : ~chat_messages[k].is_user}

\* C30: in a run of chat_message_stream that reached complete, the answer of
\* the complete event and the message_text of the answer row the run wrote
\* both are the chunks of the answer_chunk events, concatenated in order.
C30_AnswerIsTheChunks ==
    Has("complete") =>
        /\ DataOf("complete").answer = ChunkTextOf(events, "answer_chunk")
        /\ \A k \in AnswerRows :
              chat_messages[k].message_text = ChunkTextOf(events, "answer_chunk")

\* A run that streamed two chunks, stored the answer and completed.
C30_Witness ==
    /\ Has("complete")
    /\ Count("answer_chunk") = 2
    /\ ChunkTextOf(events, "answer_chunk") = "It is red"
    /\ AnswerRows # {}

(***************************************************************************)
(* C31                                                                     *)
(***************************************************************************)

\* The positions in calls of the calls named call.
CallsAt(call) == {k \in 1..Len(calls) : calls[k].call = call}

\* Every call named first was made before every call named second, and second
\* is not called without first.
CalledBefore(first, second) ==
    /\ \A i \in CallsAt(first), j \in CallsAt(second) : i < j
    /\ CallsAt(second) # {} => CallsAt(first) # {}

\* The chat_messages rows of the run that hold a question.
QuestionRows == {k \in 1..Len(chat_messages) : chat_messages[k].is_user}

\* Answer generation or the reading of its stream failed.
AnswerGenerationFailed == "generate_answer" \in faults

\* The original statement of C31: the question row is there whenever answer
\* generation has been started.
C31_QuestionRowAlwaysWritten ==
    WasCalled("generate_answer") => QuestionRows # {}

\* No step of the run removes or changes a chat_messages row.
ChatMessagesKept ==
    /\ Len(chat_messages') >= Len(chat_messages)
    /\ SubSeq(chat_messages', 1, Len(chat_messages)) = chat_messages

\* C31 (amended): the chat history is read before the insert of the question is
\* made and the history given to answer generation holds no row this run
\* inserted; the insert of the question is made, and has returned, before
\* answer generation starts; no step removes a row, and when answer generation
\* or streaming failed the run has written no answer row, so a stored question
\* row stays without an answer.
C31_QuestionStoredBeforeAnswer ==
    /\ [](/\ CalledBefore("select_chat_messages", "insert_question")
          /\ CalledBefore("insert_question", "generate_answer")
          /\ WasCalled("generate_answer") => "insert_question" \notin faults
          /\ \A a \in ArgsOf("generate_answer") :
                \A k \in 1..Len(a.chat_history) :
                    a.chat_history[k].id \notin {QuestionRowId, AnswerRowId}
          /\ AnswerGenerationFailed =>
                /\ Finished
                /\ AnswerRows = {}
                /\ ~WasCalled("insert_answer"))
    /\ [][ChatMessagesKept]_vars

\* The question was stored, then the answer stream failed after a chunk.
C31_Witness ==
    /\ AnswerGenerationFailed
    /\ QuestionRows # {}
    /\ Has("answer_chunk")
    /\ Finished

(***************************************************************************)
(* C32                                                                     *)
(***************************************************************************)

\* The user_chats rows of the match.
ChatsOfMatch == {k \in 1..Len(db_user_chats) : db_user_chats[k].match_id = MatchId}

AllRunsDone == \A r \in RunIds : runs[r].pc = "done"

\* C32: however concurrent runs of chat_message_stream for one match id are
\* interleaved at their yields and awaits, the match has at most one user_chats
\* row.
C32_AtMostOneUserChat == Cardinality(ChatsOfMatch) <= 1

\* Two runs for a match without a chat ran side by side: one created the chat,
\* both stored their question in it.
C32_Witness ==
    /\ AllRunsDone
    /\ Len(db_user_chats) = 1
    /\ db_user_chats[1].id # OldChatId
    /\ \A r \in {1, 2} :
          /\ runs[r].user_chat_id = db_user_chats[1].id
          /\ \E k \in 1..Len(db_chat_messages) :
                db_chat_messages[k].by = r /\ db_chat_messages[k].is_user
    /\ db_chat_messages[1].by # db_chat_messages[2].by

(***************************************************************************)
(* C33                                                                     *)
(***************************************************************************)

\* rows alternate question and answer, beginning with a question, and every
\* answer comes right after the question of the run that wrote it.
Alternates(rows) ==
    \A k \in 1..Len(rows) :
        /\ rows[k].is_user <=> (k % 2 = 1)
        /\ ~rows[k].is_user => k > 1 /\ rows[k - 1].by = rows[k].by

\* C33: after any interleaving of concurrent runs of chat_message_stream for
\* one match id, the chat_messages rows of each user chat, in insertion order,
\* alternate question and answer, each answer right after its question.
C33_MessagesAlternate ==
    AllRunsDone =>
        \A c \in ChatsOfMatch :
            Alternates(RowsOfChat(db_chat_messages, db_user_chats[c].id))

(***************************************************************************)
(* C34                                                                     *)
(***************************************************************************)

\* The files handled so far whose result was truthy, and the others.
Succeeded == {k \in 1..Len(outcomes) : ResultTruthy(outcomes[k].result)}
Failed == {k \in 1..Len(outcomes) : ~ResultTruthy(outcomes[k].result)}

\* C34: process_images handles the files of image_files once each, in list
\* order, and on return success_count + failed_count is len(image_files); a
\* file is moved to the processed directory only if its analysis request
\* succeeded, and a failed move leaves the file counted as a success and not
\* as a failure.
C34_EveryFileCountedOnce ==
    /\ Len(outcomes) <= Len(image_files)
    /\ \A k \in 1..Len(outcomes) : outcomes[k].file = image_files[k]
    /\ success_count = Cardinality(Succeeded)
    /\ failed_count = Cardinality(Failed)
    /\ pc = "batch_done" =>
          /\ Len(outcomes) = Len(image_files)
          /\ success_count + failed_count = Len(image_files)
    /\ \A k \in 1..Len(outcomes) :
          /\ outcomes[k].moved =>
                outcomes[k].status = 200 /\ k \in Succeeded /\ processed_dir # None
          /\ outcomes[k].move_failed => k \in Succeeded

\* A batch of three returned: one file moved, one whose move failed, one whose
\* request failed.
C34_Witness ==
    /\ pc = "batch_done"
    /\ Len(image_files) = 3
    /\ \E k \in 1..Len(outcomes) : outcomes[k].moved
    /\ \E k \in 1..Len(outcomes) : outcomes[k].move_failed
    /\ failed_count = 1

(***************************************************************************)
(* C35                                                                     *)
(***************************************************************************)

\* No step of the call removes an object from storage.
StorageKept ==
    /\ Len(storage') >= Len(storage)
    /\ SubSeq(storage', 1, Len(storage)) = storage

\* C35: ingest_photo inserts a photo row only after the upload, the image
\* analysis and the embedding generation succeeded, in that order; when a step
\* or the insert failed the call ends with HTTP 500 and no photo row, and the
\* object uploaded to storage stays there.
C35_RowOnlyAfterAllSteps ==
    /\ [](/\ CalledBefore("upload_image_to_storage", "download_image")
          /\ CalledBefore("download_image", "generate_analysis")
          /\ CalledBefore("generate_analysis", "generate_embeddings")
          /\ CalledBefore("generate_embeddings", "store_photo_in_db")
          /\ photos # <<>> =>
                /\ faults = {}
                /\ WasCalled("store_photo_in_db")
                /\ ingest_response = "200"
                /\ Len(photos) = 1
                /\ InStorage(ObjectOf(file))
                /\ photos[1].photo_url = ObjectOf(file).url
          /\ faults # {} =>
                /\ ingest_response = "500"
                /\ pc = "ingest_done"
                /\ photos = <<>>
          /\ pc = "ingest_done" => ingest_response \in {"200", "500"}
          /\ WasCalled("download_image") => InStorage(ObjectOf(file)))
    /\ [][StorageKept]_vars

\* The insert failed after the three steps succeeded: HTTP 500, no row, and the
\* uploaded image is still in storage.
C35_Witness ==
    /\ faults = {"store_photo_in_db"}
    /\ ingest_response = "500"
    /\ photos = <<>>
    /\ InStorage(ObjectOf(file))
    /\ embeddings = Embedding

====
